---- MODULE Spec2Model ----
(***************************************************************************)
(* State-machine model of the SaaS instance orchestrator                   *)
(* (saas_core/models/saas_instance.py and the records it works on).        *)
(*                                                                         *)
(* Conventions                                                             *)
(*  - a many2one that is not set is the id 0 (None);                       *)
(*  - a Char that is not set is the empty sequence (Python False / '');    *)
(*  - a subdomain, a role name and a port are sequences of characters      *)
(*    (ports: of decimal digits), so that str(), int() and replace() are   *)
(*    computed and not assumed;                                            *)
(*  - the provisioning log is the sequence of its entries, the timestamp   *)
(*    of an entry left out;                                                *)
(*  - the remote hosts are the environment: which remote call fails is an  *)
(*    input of the action that makes the calls.                            *)
(***************************************************************************)
EXTENDS Integers, Sequences, FiniteSets, TLC

VARIABLES inst, starting_port, pg, call, txn, poll, workers

vars == <<inst, starting_port, pg, call, txn, poll, workers>>

(***************************************************************************)
(* Bounds of the model.                                                    *)
(***************************************************************************)
\* number of instance records that can be created
MaxInstances == 2

\* number of instances the lifecycle operations are followed on
MaxDeployed == 1

\* number of module installations followed between two deployments
MaxInstalls == 2

\* number of requests the server works on at the same time
MaxWorkers == 2

Ids == 1 .. MaxInstances

None == 0

(***************************************************************************)
(* Program constants.                                                      *)
(***************************************************************************)
\* default of the parameter saas_master.default_instance_starting_port
DefaultStartingPort == 32000

\* `while candidate < 65535` / `if candidate >= 65535`
PortCeiling == 65535

\* `for i in $(seq 1 30)` of wait_cmd
Attempts == 30

\* the values an administrator gives the starting-port parameter
StartingPorts == {DefaultStartingPort, DefaultStartingPort + 1, PortCeiling - 2}

(***************************************************************************)
(* Records the instances refer to.  Their fields are the ones the          *)
(* orchestrator reads; TRUE stands for "a value is set".                   *)
(***************************************************************************)
\* saas.container.physical.server
\*   1: complete;  2: no SSH key pair, SSH by private IP and none set;
\*   3: complete but for an emptied docker_base_path
DockerServerIds == 1 .. 3

docker_server(id) ==
    CASE id = 1 -> [private_key_file |-> TRUE, ssh_connect_using |-> "public_ip",
                    ip_v4 |-> TRUE, private_ip_v4 |-> FALSE, docker_base_path |-> TRUE]
      [] id = 2 -> [private_key_file |-> FALSE, ssh_connect_using |-> "private_ip",
                    ip_v4 |-> TRUE, private_ip_v4 |-> FALSE, docker_base_path |-> TRUE]
      [] id = 3 -> [private_key_file |-> TRUE, ssh_connect_using |-> "public_ip",
                    ip_v4 |-> TRUE, private_ip_v4 |-> FALSE, docker_base_path |-> FALSE]
      [] OTHER  -> [private_key_file |-> FALSE, ssh_connect_using |-> "public_ip",
                    ip_v4 |-> FALSE, private_ip_v4 |-> FALSE, docker_base_path |-> FALSE]

\* saas.psql.physical.server
\*   1: complete (public IP);  2: SSH key pair set, no address at all;
\*   3: both addresses, reached by the public one;  4: both addresses,
\*   reached by the private one
DbServerIds == 1 .. 4

db_server(id) ==
    CASE id = 1 -> [private_key_file |-> TRUE, ssh_connect_using |-> "public_ip",
                    ip_v4 |-> TRUE, private_ip_v4 |-> FALSE]
      [] id = 2 -> [private_key_file |-> TRUE, ssh_connect_using |-> "public_ip",
                    ip_v4 |-> FALSE, private_ip_v4 |-> FALSE]
      [] id = 3 -> [private_key_file |-> TRUE, ssh_connect_using |-> "public_ip",
                    ip_v4 |-> TRUE, private_ip_v4 |-> TRUE]
      [] id = 4 -> [private_key_file |-> TRUE, ssh_connect_using |-> "private_ip",
                    ip_v4 |-> TRUE, private_ip_v4 |-> TRUE]
      [] OTHER  -> [private_key_file |-> FALSE, ssh_connect_using |-> "public_ip",
                    ip_v4 |-> FALSE, private_ip_v4 |-> FALSE]

\* saas.odoo.version
\*   1: image and tag;  2: image without tag
OdooVersionIds == 1 .. 2

odoo_version(id) ==
    CASE id = 1 -> [docker_image |-> TRUE, docker_image_tag |-> TRUE]
      [] id = 2 -> [docker_image |-> TRUE, docker_image_tag |-> FALSE]
      [] OTHER  -> [docker_image |-> FALSE, docker_image_tag |-> FALSE]

(***************************************************************************)
(* Strings.                                                                *)
(***************************************************************************)
Digits == <<"0", "1", "2", "3", "4", "5", "6", "7", "8", "9">>

RECURSIVE str(_)
\* Python str() of a natural number: its decimal digits
str(n) == IF n < 10 THEN <<Digits[n + 1]>> ELSE str(n \div 10) \o <<Digits[(n % 10) + 1]>>

digit(c) == CHOOSE d \in 0 .. 9 : Digits[d + 1] = c

RECURSIVE int(_)
\* Python int() of a string of digits; -1 stands for the ValueError
int(s) ==
    IF Len(s) = 0 \/ \E k \in 1 .. Len(s) : \A d \in 0 .. 9 : Digits[d + 1] # s[k]
        THEN -1
        ELSE IF Len(s) = 1 THEN digit(s[1])
             ELSE 10 * int(SubSeq(s, 1, Len(s) - 1)) + digit(s[Len(s)])

\* str.replace(old, new) for single characters
replace(s, old, new) == [k \in 1 .. Len(s) |-> IF s[k] = old THEN new ELSE s[k]]

(***************************************************************************)
(* The module catalog (product.product / product.template).                *)
(***************************************************************************)
\* technical names in lexicographic order: sorted() compares by this rank
TechnicalNames == <<"account", "base", "crm", "mail", "sale">>

rank(name) == CHOOSE k \in 1 .. Len(TechnicalNames) : TechnicalNames[k] = name

\* module products: 1 crm (depends on mail), 2 mail (depends on sale),
\* 3 sale (depends on crm), 4 account (depends on base), 5 base
ModuleIds == 1 .. 5

module(id) ==
    CASE id = 1 -> [technical_name |-> "crm",  saas_dependency_ids |-> {2}]
      [] id = 2 -> [technical_name |-> "mail", saas_dependency_ids |-> {3}]
      [] id = 3 -> [technical_name |-> "sale", saas_dependency_ids |-> {1}]
      [] id = 4 -> [technical_name |-> "account", saas_dependency_ids |-> {5}]
      [] OTHER  -> [technical_name |-> "base", saas_dependency_ids |-> {}]

\* bundle products: 11 holds crm and sale, 12 holds no module
BundleIds == 11 .. 12

bundle(id) ==
    CASE id = 11 -> [saas_module_ids |-> {1, 3}]
      [] OTHER   -> [saas_module_ids |-> {}]

\* _get_all_technical_names following the dependencies of the dependencies
_get_all_technical_names_m(line) ==
    LET direct(ms) == ms \cup UNION {module(m).saas_dependency_ids : m \in ms}
        members == IF line.product_id # None THEN bundle(line.product_id).saas_module_ids
                   ELSE IF line.module_id # None THEN {line.module_id}
                   ELSE {}
    IN  {module(m).technical_name : m \in direct(direct(members))}

\* SaasInstanceModuleLine._get_all_technical_names
_get_all_technical_names(line) ==
    IF line.product_id # None
        THEN UNION {{module(m).technical_name}
                    \cup {module(d).technical_name : d \in module(m).saas_dependency_ids}
                    : m \in bundle(line.product_id).saas_module_ids}
        ELSE IF line.module_id # None
            THEN {module(line.module_id).technical_name}
                 \cup {module(d).technical_name
                       : d \in module(line.module_id).saas_dependency_ids}
            ELSE {}

RECURSIVE sorted_m(_)
\* sorted(names, reverse=True)
sorted_m(names) ==
    IF names = {} THEN <<>>
    ELSE LET first == CHOOSE n \in names : \A m \in names : rank(n) >= rank(m)
         IN  <<first>> \o sorted_m(names \ {first})

RECURSIVE sorted(_)
\* sorted(names): the names in lexicographic order
sorted(names) ==
    IF names = {} THEN <<>>
    ELSE LET first == CHOOSE n \in names : \A m \in names : rank(n) <= rank(m)
         IN  <<first>> \o sorted(names \ {first})

(***************************************************************************)
(* saas.instance records.                                                  *)
(***************************************************************************)
States == {"draft", "provisioning", "running", "stopped", "failed",
           "suspended", "cancelled"}

\* the values of secrets.choice over 24 characters, two of them
Passwords == {"pwA", "pwB"}

\* the row of an instance that was not created
NoInstance ==
    [exists |-> FALSE, state |-> "draft", subdomain |-> <<>>,
     partner_id |-> None, odoo_version_id |-> None,
     docker_server_id |-> None, db_server_id |-> None,
     xmlrpc_port |-> <<>>, longpolling_port |-> <<>>,
     admin_password |-> "", db_user |-> <<>>, db_password |-> "",
     module_line_ids |-> <<>>, installed_module_ids |-> {},
     provisioning_log |-> <<>>]

\* the values create() is called with: two complete ones (one with a module
\* to install), one without customer, one whose version has no image tag
\* and whose database server has no address, one without version and
\* database server
CreateVals ==
    {[subdomain |-> <<"a", "-", "b">>, partner_id |-> 1, odoo_version_id |-> 1,
      db_server_id |-> 1,
      module_line_ids |-> <<[product_id |-> None, module_id |-> 1, state |-> "pending",
                           log |-> ""]>>],
     [subdomain |-> <<"a", "_", "b">>, partner_id |-> 1, odoo_version_id |-> 1,
      db_server_id |-> 1, module_line_ids |-> <<>>],
     [subdomain |-> <<"a", ".", "b">>, partner_id |-> None, odoo_version_id |-> 1,
      db_server_id |-> 1, module_line_ids |-> <<>>],
     [subdomain |-> <<"c">>, partner_id |-> 1, odoo_version_id |-> 2,
      db_server_id |-> 2, module_line_ids |-> <<>>],
     [subdomain |-> <<"d">>, partner_id |-> 1, odoo_version_id |-> None,
      db_server_id |-> None, module_line_ids |-> <<>>]}

\* SaasInstance._generate_db_user
_generate_db_user(rec) ==
    <<"s", "a", "a", "s", "_">> \o replace(replace(rec.subdomain, "-", "_"), ".", "_")

\* the credentials of _do_deploy drawn anew at every deploy
credentials_m(rec, pw1, pw2) ==
    [rec EXCEPT !.db_user = _generate_db_user(rec), !.db_password = pw1,
                !.admin_password = pw2]

\* `if not self.db_user: ...` and the two that follow of _do_deploy: a
\* credential that is blank is generated, pw1 and pw2 being the random draws
credentials(rec, pw1, pw2) ==
    LET rec1 == IF rec.db_user = <<>>
                    THEN [rec EXCEPT !.db_user = _generate_db_user(rec)] ELSE rec
        rec2 == IF rec1.db_password = ""
                    THEN [rec1 EXCEPT !.db_password = pw1] ELSE rec1
    IN  IF rec2.admin_password = ""
            THEN [rec2 EXCEPT !.admin_password = pw2] ELSE rec2

\* _append_log writing the entry in place of the current text
_append_log_m(rec, text, detail) ==
    [rec EXCEPT !.provisioning_log = <<[text |-> text, detail |-> detail]>>]

\* SaasInstance._append_log: one more entry after the current text
_append_log(rec, text, detail) ==
    [rec EXCEPT !.provisioning_log = Append(@, [text |-> text, detail |-> detail])]

(***************************************************************************)
(* Port allocation.                                                        *)
(***************************************************************************)
\* the ports of the siblings of instance i: the other instances of its
\* Docker server that have an HTTP port
used_ports(instances, i) ==
    LET siblings == {j \in DOMAIN instances :
                        /\ instances[j].exists
                        /\ instances[j].docker_server_id = instances[i].docker_server_id
                        /\ j # i
                        /\ instances[j].xmlrpc_port # <<>>}
    IN  {int(instances[j].xmlrpc_port) : j \in siblings}
        \cup {int(instances[j].longpolling_port) :
                j \in {k \in siblings : instances[k].longpolling_port # <<>>}}

RECURSIVE scan_m(_, _)
\* the while loop with a test of the candidate alone: candidate + 1 is not
\* looked up
scan_m(candidate, used) ==
    IF candidate < PortCeiling
        THEN IF candidate \notin used
                THEN candidate
                ELSE scan_m(candidate + 2, used)
        ELSE candidate

RECURSIVE scan(_, _)
\* the while loop of _auto_assign_ports
scan(candidate, used) ==
    IF candidate < PortCeiling
        THEN IF candidate \notin used /\ (candidate + 1) \notin used
                THEN candidate
                ELSE scan(candidate + 2, used)
        ELSE candidate

NoError == [type |-> "none", msg |-> ""]

\* _auto_assign_ports without its first statement (`if self.xmlrpc_port and
\* self.longpolling_port: return`)
_auto_assign_ports_m(instances, i, start) ==
    LET rec == instances[i]
        candidate == scan(start, used_ports(instances, i) \ {-1})
    IN  IF candidate >= PortCeiling
            THEN [raised |-> [type |-> "ValidationError",
                              msg |-> "No available port pair found on server"],
                  rec |-> rec]
        ELSE [raised |-> NoError,
              rec |-> [rec EXCEPT !.xmlrpc_port = str(candidate),
                                  !.longpolling_port = str(candidate + 1)]]

\* SaasInstance._auto_assign_ports on instance i: the error it raises and
\* the ports the record has afterwards
_auto_assign_ports(instances, i, start) ==
    LET rec == instances[i]
        candidate == scan(start, used_ports(instances, i) \ {-1})
    IN  IF rec.xmlrpc_port # <<>> /\ rec.longpolling_port # <<>>
            THEN [raised |-> NoError, rec |-> rec]
        ELSE IF candidate >= PortCeiling
            THEN [raised |-> [type |-> "ValidationError",
                              msg |-> "No available port pair found on server"],
                  rec |-> rec]
        ELSE [raised |-> NoError,
              rec |-> [rec EXCEPT !.xmlrpc_port = str(candidate),
                                  !.longpolling_port = str(candidate + 1)]]

\* _sql_constraints: UNIQUE(docker_server_id, xmlrpc_port) and
\* UNIQUE(docker_server_id, longpolling_port); a NULL equals nothing
_sql_constraints(instances) ==
    \A i, j \in DOMAIN instances :
        (i # j /\ instances[i].exists /\ instances[j].exists
         /\ instances[i].docker_server_id # None
         /\ instances[i].docker_server_id = instances[j].docker_server_id)
        => /\ ~(instances[i].xmlrpc_port # <<>>
                /\ instances[i].xmlrpc_port = instances[j].xmlrpc_port)
           /\ ~(instances[i].longpolling_port # <<>>
                /\ instances[i].longpolling_port = instances[j].longpolling_port)

(***************************************************************************)
(* Errors and preconditions.                                               *)
(***************************************************************************)
Error(type, msg) == [type |-> type, msg |-> msg]

Opt(cond, text) == IF cond THEN <<text>> ELSE <<>>

RECURSIVE join(_)
\* '\n'.join(errors)
join(errors) ==
    IF Len(errors) = 0 THEN ""
    ELSE IF Len(errors) = 1 THEN errors[1]
    ELSE errors[1] \o "\n" \o join(Tail(errors))

\* _get_ssh_ip of a Docker or database server: the error it raises
_get_ssh_ip(server) ==
    IF server.ssh_connect_using = "private_ip"
        THEN IF ~server.private_ip_v4
                THEN Error("ValidationError", "Private IP address is required on server")
                ELSE NoError
        ELSE IF ~server.ip_v4
                THEN Error("ValidationError", "Public IP address is required on server")
                ELSE NoError

\* _get_ssh_connection of a Docker or database server: the error it raises
\* before any connection is made
_get_ssh_connection(server) ==
    IF ~server.private_key_file
        THEN Error("ValidationError", "SSH key pair with a private key file is required")
        ELSE _get_ssh_ip(server)

\* SaasInstance._ensure_can_ssh: the error it raises
_ensure_can_ssh(rec) ==
    IF rec.docker_server_id = None
        THEN Error("ValidationError", "No Docker server configured.")
    ELSE IF ~docker_server(rec.docker_server_id).private_key_file
        THEN Error("ValidationError", "SSH key pair with private key is required on server")
    ELSE _get_ssh_ip(docker_server(rec.docker_server_id))

\* _validate_deploy_fields without `if not self.partner_id`
_validate_deploy_fields_m(rec) ==
    LET server  == docker_server(rec.docker_server_id)
        psql    == db_server(rec.db_server_id)
        version == odoo_version(rec.odoo_version_id)
        has_server == rec.docker_server_id # None
        has_psql   == rec.db_server_id # None
        has_version == rec.odoo_version_id # None
    IN  Opt(rec.subdomain = <<>>, "Subdomain is required.")
        \o Opt(~has_server, "Docker Server is required.")
        \o Opt(~has_psql, "Database Server is required.")
        \o Opt(~has_version, "Odoo Version is required.")
        \o Opt(~has_version \/ ~version.docker_image,
               "Docker image is not set on the selected Odoo version.")
        \o Opt(~has_version \/ ~version.docker_image_tag,
               "Docker image tag is not set on the selected Odoo version.")
        \o Opt(has_server /\ ~server.private_key_file,
               "Docker server SSH key pair with private key is required.")
        \o Opt(has_server /\ server.ssh_connect_using = "private_ip"
                          /\ ~server.private_ip_v4,
               "Docker server Private IP is required (SSH is set to use Private IP).")
        \o Opt(has_server /\ server.ssh_connect_using = "public_ip" /\ ~server.ip_v4,
               "Docker server Public IP address is required.")
        \o Opt(has_psql /\ ~psql.private_key_file,
               "Database server SSH key pair with private key is required.")
        \o Opt(has_psql /\ psql.ssh_connect_using = "private_ip" /\ ~psql.private_ip_v4,
               "Database server Private IP is required (SSH is set to use Private IP).")
        \o Opt(has_psql /\ psql.ssh_connect_using = "public_ip" /\ ~psql.ip_v4,
               "Database server Public IP address is required.")
        \o Opt(has_psql /\ ~psql.private_ip_v4 /\ ~psql.ip_v4,
               "Database server needs at least one IP address for db_host configuration.")

\* SaasInstance._validate_deploy_fields: the list `errors`
_validate_deploy_fields(rec) ==
    LET server  == docker_server(rec.docker_server_id)
        psql    == db_server(rec.db_server_id)
        version == odoo_version(rec.odoo_version_id)
        has_server == rec.docker_server_id # None
        has_psql   == rec.db_server_id # None
        has_version == rec.odoo_version_id # None
    IN  Opt(rec.subdomain = <<>>, "Subdomain is required.")
        \o Opt(~has_server, "Docker Server is required.")
        \o Opt(~has_psql, "Database Server is required.")
        \o Opt(~has_version, "Odoo Version is required.")
        \o Opt(rec.partner_id = None, "Customer is required.")
        \o Opt(~has_version \/ ~version.docker_image,
               "Docker image is not set on the selected Odoo version.")
        \o Opt(~has_version \/ ~version.docker_image_tag,
               "Docker image tag is not set on the selected Odoo version.")
        \o Opt(has_server /\ ~server.private_key_file,
               "Docker server SSH key pair with private key is required.")
        \o Opt(has_server /\ server.ssh_connect_using = "private_ip"
                          /\ ~server.private_ip_v4,
               "Docker server Private IP is required (SSH is set to use Private IP).")
        \o Opt(has_server /\ server.ssh_connect_using = "public_ip" /\ ~server.ip_v4,
               "Docker server Public IP address is required.")
        \o Opt(has_psql /\ ~psql.private_key_file,
               "Database server SSH key pair with private key is required.")
        \o Opt(has_psql /\ psql.ssh_connect_using = "private_ip" /\ ~psql.private_ip_v4,
               "Database server Private IP is required (SSH is set to use Private IP).")
        \o Opt(has_psql /\ psql.ssh_connect_using = "public_ip" /\ ~psql.ip_v4,
               "Database server Public IP address is required.")
        \o Opt(has_psql /\ ~psql.private_ip_v4 /\ ~psql.ip_v4,
               "Database server needs at least one IP address for db_host configuration.")

\* SaasInstance._get_instance_path: the error it raises (rstrip of an unset
\* docker_base_path)
_get_instance_path(rec) ==
    IF ~docker_server(rec.docker_server_id).docker_base_path
        THEN Error("AttributeError", "'bool' object has no attribute 'rstrip'")
        ELSE NoError

(***************************************************************************)
(* Remote execution.  A context ctx threads what a sequence of remote      *)
(* steps changes: the instance record, the databases, the remote calls     *)
(* made, and the error raised (after which no step does anything).         *)
(***************************************************************************)
\* the SSHConnection objects of an operation: the servers whose session was
\* entered, in order; the sessions whose client is open; the number of
\* temporary key files on disk
NoSessions == [opened |-> <<>>, clients |-> {}, key_tmpfiles |-> 0]

Context(rec, pgs) ==
    [rec |-> rec, pg |-> pgs, cmds |-> <<>>, err |-> NoError, ssh |-> NoSessions,
     db_host |-> "none"]

log(ctx, text, detail) == [ctx EXCEPT !.rec = _append_log(@, text, detail)]

raise(ctx, type, msg) == [ctx EXCEPT !.err = Error(type, msg)]

\* a context that starts with the error a precondition raised
checked(rec, pgs, err) == [Context(rec, pgs) EXCEPT !.err = err]

\* a precondition evaluated in the middle of an action
check(ctx, err) == IF ctx.err # NoError THEN ctx ELSE [ctx EXCEPT !.err = err]

\* `with server._get_ssh_connection() as ssh`: SSHConnection.__enter__,
\* _connect: the key is written to a temporary file, then the client
\* connects and raises what paramiko raises; __exit__ is not called when
\* __enter__ raises
connect(ctx, server, fault, name) ==
    IF ctx.err # NoError THEN ctx
    ELSE IF _get_ssh_connection(server) # NoError
        THEN [ctx EXCEPT !.err = _get_ssh_connection(server)]
    ELSE IF fault = name
        THEN raise([ctx EXCEPT !.ssh.key_tmpfiles = @ + 1],
                   "SSHException", "Unable to connect")
    ELSE [ctx EXCEPT !.ssh.key_tmpfiles = @ + 1,
                     !.ssh.clients = @ \cup {name},
                     !.ssh.opened = Append(@, name)]

\* the end of the `with` block, reached by return or by exception when
\* __enter__ had returned: SSHConnection.__exit__, _disconnect
disconnect(ctx, name) ==
    IF name \in ctx.ssh.clients
        THEN [ctx EXCEPT !.ssh.clients = @ \ {name}, !.ssh.key_tmpfiles = @ - 1]
        ELSE ctx

\* an execute that takes a timeout: execute(self, command, timeout=None)
execute_m(ctx, cmd, kwargs) ==
    IF ctx.err # NoError THEN ctx ELSE [ctx EXCEPT !.cmds = Append(@, cmd)]

\* SSHConnection.execute(command) takes no other argument: a call that
\* passes timeout=... raises TypeError before anything is sent
execute(ctx, cmd, kwargs) ==
    IF ctx.err # NoError THEN ctx
    ELSE IF kwargs # {}
        THEN raise(ctx, "TypeError", "execute() got an unexpected keyword argument")
    ELSE [ctx EXCEPT !.cmds = Append(@, cmd)]

\* the exit code the remote host returns for cmd
exit_code(cmd, fault) == IF fault = cmd THEN 1 ELSE 0

\* SSHConnection.write_file: raises what SFTP raises
write_file(ctx, name, fault) ==
    IF ctx.err # NoError THEN ctx
    ELSE IF fault = name
        THEN raise([ctx EXCEPT !.cmds = Append(@, name)], "IOError", "SFTP failure")
    ELSE [ctx EXCEPT !.cmds = Append(@, name)]

\* a step that goes on after a non-zero exit
step_m(ctx, before, cmd, fault, failure, after) ==
    IF ctx.err # NoError THEN ctx
    ELSE log(execute(log(ctx, before, <<>>), cmd, {}), after, <<>>)

\* one `execute` step of the deploy flow: log, run, raise on a non-zero exit
step(ctx, before, cmd, fault, failure, after) ==
    IF ctx.err # NoError THEN ctx
    ELSE IF exit_code(cmd, fault) # 0
        THEN raise(execute(log(ctx, before, <<>>), cmd, {}), "UserError", failure)
    ELSE log(execute(log(ctx, before, <<>>), cmd, {}), after, <<>>)

\* one `write_file` step of the deploy flow
write_step(ctx, before, name, fault, after) ==
    IF ctx.err # NoError THEN ctx
    ELSE IF fault = name THEN write_file(log(ctx, before, <<>>), name, fault)
    ELSE log(write_file(log(ctx, before, <<>>), name, fault), after, <<>>)

(***************************************************************************)
(* The PostgreSQL server: roles (name, password) and databases (name,      *)
(* owner).                                                                 *)
(***************************************************************************)
\* the DO block without its ELSE branch: an existing role is left alone
ensure_role_m(pgs, user, password) ==
    IF \E r \in pgs.roles : r.name = user
        THEN pgs
        ELSE [pgs EXCEPT !.roles = @ \cup {[name |-> user, password |-> password]}]

\* the DO block of ensure_role_cmd: CREATE ROLE if absent, else ALTER ROLE
ensure_role(pgs, user, password) ==
    [pgs EXCEPT !.roles = {r \in @ : r.name # user}
                          \cup {[name |-> user, password |-> password]}]

\* create_db_cmd: createdb -O user db unless a database of that name exists
create_db(pgs, user, db) ==
    IF \E d \in pgs.dbs : d.name = db
        THEN pgs
        ELSE [pgs EXCEPT !.dbs = @ \cup {[name |-> db, owner |-> user]}]

\* "Ensuring PostgreSQL role" of _provision_postgresql
role_cmd(ctx, fault) ==
    IF ctx.err # NoError THEN ctx
    ELSE LET d == ctx.rec.db_server_id
             code == exit_code("ensure_role", fault)
             ran == execute(log(ctx, "Ensuring PostgreSQL role", ctx.rec.db_user),
                            "ensure_role", {})
         IN  IF code # 0
                 THEN raise(log(ran, "Role command result: exit=", str(code)),
                            "UserError", "Failed to create/update PostgreSQL role")
                 ELSE log([ran EXCEPT !.pg[d] = ensure_role(@, ctx.rec.db_user,
                                                            ctx.rec.db_password)],
                          "Role command result: exit=", str(code))

\* "Ensuring database" of _provision_postgresql
db_cmd(ctx, fault) ==
    IF ctx.err # NoError THEN ctx
    ELSE LET d == ctx.rec.db_server_id
             code == exit_code("createdb", fault)
             ran == execute(log(ctx, "Ensuring database", ctx.rec.subdomain),
                            "createdb", {})
         IN  IF code # 0
                 THEN raise(log(ran, "DB command result: exit=", str(code)),
                            "UserError", "Failed to create database")
                 ELSE log([ran EXCEPT !.pg[d] = create_db(@, ctx.rec.db_user,
                                                          ctx.rec.subdomain)],
                          "DB command result: exit=", str(code))

\* _provision_postgresql creating the database before the role
_provision_postgresql_m(ctx, fault) ==
    IF ctx.err # NoError THEN ctx
    ELSE IF ctx.rec.db_server_id = None
        THEN raise(ctx, "UserError", "No database server configured on this instance.")
    ELSE disconnect(role_cmd(db_cmd(connect(ctx, db_server(ctx.rec.db_server_id),
                                            fault, "db_connect"),
                                    fault),
                             fault),
                    "db_connect")

\* SaasInstance._provision_postgresql
_provision_postgresql(ctx, fault) ==
    IF ctx.err # NoError THEN ctx
    ELSE IF ctx.rec.db_server_id = None
        THEN raise(ctx, "UserError", "No database server configured on this instance.")
    ELSE disconnect(db_cmd(role_cmd(connect(ctx, db_server(ctx.rec.db_server_id),
                                            fault, "db_connect"),
                                    fault),
                           fault),
                    "db_connect")

(***************************************************************************)
(* Deploy.                                                                 *)
(***************************************************************************)
\* the lines of the instance that are pending
pending_lines(rec) ==
    {k \in 1 .. Len(rec.module_line_ids) : rec.module_line_ids[k].state = "pending"}

\* modules_to_install of _do_deploy: 'base', or 'base,' and the sorted names
modules_to_install(rec) ==
    LET all_module_names ==
            UNION {_get_all_technical_names(rec.module_line_ids[k]) : k \in pending_lines(rec)}
    IN  IF all_module_names # {}
            THEN <<"base">> \o sorted(all_module_names \ {"base"})
            ELSE <<"base">>

\* the products of a line that deploy adds to installed_module_ids
line_products(line) ==
    IF line.product_id # None THEN bundle(line.product_id).saas_module_ids
    ELSE IF line.module_id # None THEN {line.module_id}
    ELSE {}

\* "Create PostgreSQL role and database"
provision(ctx, fault) ==
    IF ctx.err # NoError THEN ctx
    ELSE LET ran == _provision_postgresql(
                        log(ctx, "Creating PostgreSQL role and database...", <<>>), fault)
         IN  IF ran.err # NoError THEN ran
             ELSE log(ran, "PostgreSQL role and database ready.", <<>>)

\* "Initialize Odoo database": ssh.execute(init_cmd, timeout=600)
init_database(ctx, fault) ==
    IF ctx.err # NoError THEN ctx
    ELSE LET ran == execute(log(ctx, "Initializing Odoo database with modules: ",
                                modules_to_install(ctx.rec)),
                            "odoo_init", {"timeout"})
         IN  IF ran.err # NoError THEN ran
             ELSE IF exit_code("odoo_init", fault) # 0
                 THEN raise(log(ran, "DB init output (last 1000 chars):", <<>>),
                            "UserError", "Database initialization failed")
             ELSE log(log(ran, "DB init output (last 1000 chars):", <<>>),
                      "Database initialized successfully.", <<>>)

\* the lines marked whatever the initialization has done
track_installed_m(ctx) ==
    IF pending_lines(ctx.rec) = {} THEN ctx
    ELSE [ctx EXCEPT
            !.rec.module_line_ids =
                [k \in 1 .. Len(@) |->
                    IF k \in pending_lines(ctx.rec) THEN [@[k] EXCEPT !.state = "installed"]
                                                   ELSE @[k]],
            !.rec.installed_module_ids =
                @ \cup UNION {line_products(ctx.rec.module_line_ids[k]) :
                                 k \in pending_lines(ctx.rec)}]

\* "Track installed modules": the lines that were pending when the module
\* set was resolved become installed
track_installed(ctx) ==
    IF ctx.err # NoError \/ pending_lines(ctx.rec) = {} THEN ctx
    ELSE LET lines == ctx.rec.module_line_ids
             pending == pending_lines(ctx.rec)
             all_products == UNION {line_products(lines[k]) : k \in pending}
         IN  [ctx EXCEPT
                !.rec.module_line_ids =
                    [k \in 1 .. Len(lines) |->
                        IF k \in pending THEN [lines[k] EXCEPT !.state = "installed"]
                                         ELSE lines[k]],
                !.rec.installed_module_ids = @ \cup all_products]

\* "Start container"
compose_up(ctx, fault) ==
    IF ctx.err # NoError THEN ctx
    ELSE LET ran == log(execute(log(ctx, "Starting container with docker compose up -d...",
                                    <<>>), "compose_up", {}),
                        "docker compose up output:", <<>>)
         IN  IF exit_code("compose_up", fault) # 0
                 THEN raise(ran, "UserError", "docker compose up failed")
                 ELSE log(ran, "Container started.", <<>>)

\* the readiness script wait_cmd, run by the shell of the Docker host: `p` is
\* the run (loop variable i, $STATUS, what was echoed, the exit code once it
\* has exited, the number of `docker inspect` made)
\* an iteration that keeps waiting after having observed exited or dead
inspect_m(p, status) ==
    IF status = "running"
        THEN [p EXCEPT !.i = @ + 1, !.STATUS = status, !.observed = @ + 1,
                       !.stdout = "READY", !.exit_code = 0, !.done = TRUE]
    ELSE [p EXCEPT !.i = @ + 1, !.STATUS = status, !.observed = @ + 1]

\* one iteration of `for i in $(seq 1 30)`: the status is read, then
\* "running" exits 0, "exited" and "dead" exit 1, anything else sleeps
inspect(p, status) ==
    IF status = "running"
        THEN [p EXCEPT !.i = @ + 1, !.STATUS = status, !.observed = @ + 1,
                       !.stdout = "READY", !.exit_code = 0, !.done = TRUE]
    ELSE IF status \in {"exited", "dead"}
        THEN [p EXCEPT !.i = @ + 1, !.STATUS = status, !.observed = @ + 1,
                       !.stdout = "FAILED:" \o status, !.exit_code = 1, !.done = TRUE]
    ELSE [p EXCEPT !.i = @ + 1, !.STATUS = status, !.observed = @ + 1]

\* `done; echo "TIMEOUT"; exit 1`
timeout(p) == [p EXCEPT !.stdout = "TIMEOUT", !.exit_code = 1, !.done = TRUE]

\* wait_result taking any answer of the script for readiness
wait_result_m(ran, code, stdout) == log(ran, "Container is running.", <<>>)

\* `if exit_code != 0 or 'READY' not in stdout:` after wait_cmd has returned
wait_result(ran, code, stdout) ==
    IF code # 0 \/ stdout # "READY"
        THEN raise(log(execute(ran, "docker_logs", {}),
                       "Container failed to start.", <<"Container logs">>),
                   "UserError",
                   "Container did not become ready within 60 seconds.")
        ELSE log(ran, "Container is running.", <<>>)

\* "Wait for container to be ready": wait_cmd, and on failure the fetch of
\* the container logs
wait_ready(ctx, fault) ==
    IF ctx.err # NoError THEN ctx
    ELSE wait_result(execute(log(ctx, "Waiting for container to be ready...", <<>>),
                             "wait_ready", {}),
                     exit_code("wait_ready", fault),
                     IF exit_code("wait_ready", fault) # 0 THEN "TIMEOUT" ELSE "READY")

\* `db_host = psql_server.private_ip_v4 or psql_server.ip_v4`: the address
\* that is written, named by its field
db_host(psql_server) ==
    IF psql_server.private_ip_v4 THEN "private_ip"
    ELSE IF psql_server.ip_v4 THEN "public_ip"
    ELSE "none"

\* "Render and write odoo.conf": the file holds db_host once it is written
write_conf(ctx, fault) ==
    IF ctx.err # NoError THEN ctx
    ELSE LET written == write_step(ctx, "Writing odoo.conf...", "write_conf", fault,
                                   "odoo.conf written.")
         IN  IF written.err # NoError THEN written
             ELSE [written EXCEPT !.db_host = db_host(db_server(ctx.rec.db_server_id))]

\* the body of `with server._get_ssh_connection() as ssh:` in _do_deploy
deploy_remote(ctx, fault) ==
    LET server == docker_server(ctx.rec.docker_server_id)
        c0 == connect(ctx, server, fault, "connect")
        c1 == step(c0, "Creating directory structure", "mkdir", fault,
                   "Failed to create directories", "Directory structure created.")
        c2 == step(c1, "Setting permissions...", "chown_chmod", fault,
                   "Failed to set permissions", "Permissions set.")
        c3 == write_step(c2, "Writing docker-compose.yml...", "write_dc", fault,
                         "docker-compose.yml written.")
        c4 == write_conf(c3, fault)
        c5 == provision(c4, fault)
        c6 == init_database(c5, fault)
        c7 == track_installed(c6)
        c8 == compose_up(c7, fault)
        c9 == wait_ready(c8, fault)
    IN  disconnect(c9, "connect")

\* the try/except of _do_deploy around deploy_remote: the final record and
\* the error raised to the caller
except(done) ==
    IF done.err = NoError
        THEN [done EXCEPT
                !.rec = _append_log([@ EXCEPT !.state = "running"],
                                    "Deployment completed successfully. State: running.",
                                    <<>>)]
        ELSE [done EXCEPT
                !.rec = _append_log([@ EXCEPT !.state = "failed"],
                                    "DEPLOYMENT FAILED: ", <<done.err.msg>>),
                !.err = IF done.err.type \in {"UserError", "ValidationError"}
                            THEN done.err
                            ELSE Error("UserError",
                                       "Deployment failed for: " \o done.err.msg)]

deploy_outcome(ctx, fault) == except(deploy_remote(ctx, fault))

(***************************************************************************)
(* Teardown of the database.                                               *)
(***************************************************************************)
\* drop_db_cmd: dropdb when a database of that name exists
drop_db(pgs, db) == [pgs EXCEPT !.dbs = {d \in @ : d.name # db}]

\* drop_role_cmd: dropuser when a role of that name exists; PostgreSQL
\* refuses to drop a role that still owns a database
drop_role(pgs, user) ==
    IF \E d \in pgs.dbs : d.owner = user
        THEN pgs
        ELSE [pgs EXCEPT !.roles = {r \in @ : r.name # user}]

\* `if db_name:` of _drop_postgresql: the exit code is only logged
dropdb(ctx, fault) ==
    IF ctx.err # NoError \/ ctx.rec.subdomain = <<>> THEN ctx
    ELSE IF exit_code("dropdb", fault) # 0 THEN execute(ctx, "dropdb", {})
    ELSE [execute(ctx, "dropdb", {}) EXCEPT
             !.pg[ctx.rec.db_server_id] = drop_db(@, ctx.rec.subdomain)]

\* `if db_user:` of _drop_postgresql: the exit code is only logged
dropuser(ctx, fault) ==
    IF ctx.err # NoError \/ ctx.rec.db_user = <<>> THEN ctx
    ELSE IF exit_code("dropuser", fault) # 0 THEN execute(ctx, "dropuser", {})
    ELSE [execute(ctx, "dropuser", {}) EXCEPT
             !.pg[ctx.rec.db_server_id] = drop_role(@, ctx.rec.db_user)]

\* SaasInstance._drop_postgresql
_drop_postgresql(ctx, fault) ==
    IF ctx.err # NoError \/ ctx.rec.db_server_id = None THEN ctx
    ELSE disconnect(dropuser(dropdb(connect(ctx, db_server(ctx.rec.db_server_id),
                                            fault, "db_connect"),
                                    fault),
                             fault),
                    "db_connect")

(***************************************************************************)
(* The lifecycle actions on the container.                                 *)
(***************************************************************************)
\* run without the `if exit_code != 0: raise`
run_m(ctx, cmd, fault, failure) ==
    IF ctx.err # NoError THEN ctx ELSE execute(ctx, cmd, {})

\* one `execute` of a lifecycle action: raise on a non-zero exit
run(ctx, cmd, fault, failure) ==
    IF ctx.err # NoError THEN ctx
    ELSE IF exit_code(cmd, fault) # 0
        THEN raise(execute(ctx, cmd, {}), "UserError", failure)
    ELSE execute(ctx, cmd, {})

\* the assignment `rec.state = new` that ends an action that did not raise
finish(ctx, new) == IF ctx.err # NoError THEN ctx ELSE [ctx EXCEPT !.rec.state = new]

\* `with server._get_ssh_connection() as ssh` on the Docker server
ssh(ctx, rec, fault) ==
    IF ctx.err # NoError THEN ctx
    ELSE connect(ctx, docker_server(rec.docker_server_id), fault, "connect")

\* SaasInstance.action_stop on one record
action_stop(rec, pgs, fault) ==
    LET c0 == checked(rec, pgs, _ensure_can_ssh(rec))
        c1 == ssh(c0, rec, fault)
        c2 == run(c1, "docker_stop", fault, "Failed to stop container")
    IN  finish(disconnect(c2, "connect"), "stopped")

\* SaasInstance.action_restart on one record
action_restart(rec, pgs, fault) ==
    LET c0 == checked(rec, pgs, _ensure_can_ssh(rec))
        c1 == ssh(c0, rec, fault)
        c2 == run(c1, "docker_restart", fault, "Failed to restart container")
    IN  finish(disconnect(c2, "connect"), "running")

\* SaasInstance.action_redeploy on one record
action_redeploy(rec, pgs, fault) ==
    LET c0 == checked(rec, pgs, _ensure_can_ssh(rec))
        c1 == check(c0, _get_instance_path(rec))
        c2 == ssh(c1, rec, fault)
        c3 == run(c2, "compose_stop", fault, "docker compose stop failed")
        c4 == run(c3, "compose_up", fault, "docker compose up -d failed")
    IN  finish(disconnect(c4, "connect"), "running")

\* action_suspend refusing an instance that is not running
action_suspend_m(rec, pgs, fault) ==
    LET c0 == checked(rec, pgs, IF rec.state # "running"
                                    THEN Error("UserError", "Instance is not running.")
                                    ELSE _ensure_can_ssh(rec))
        c1 == ssh(c0, rec, fault)
        c2 == run(c1, "docker_stop", fault, "Failed to stop container")
    IN  finish(disconnect(c2, "connect"), "suspended")

\* SaasInstance.action_suspend on one record
action_suspend(rec, pgs, fault) ==
    LET c0 == checked(rec, pgs, _ensure_can_ssh(rec))
        c1 == ssh(c0, rec, fault)
        c2 == run(c1, "docker_stop", fault, "Failed to stop container")
    IN  finish(disconnect(c2, "connect"), "suspended")

\* action_delete_instance without the `if exit_code != 0: raise` after rm -rf
action_delete_instance_m(rec, pgs, fault) ==
    LET c0 == checked(rec, pgs, _ensure_can_ssh(rec))
        c1 == check(c0, _get_instance_path(rec))
        c2 == ssh(c1, rec, fault)
        c3 == execute(c2, "compose_down", {})
        c4 == execute(c3, "rm_rf", {})
        c5 == _drop_postgresql(disconnect(c4, "connect"), fault)
    IN  finish(c5, "cancelled")

\* SaasInstance.action_delete_instance on one record
action_delete_instance(rec, pgs, fault) ==
    LET c0 == checked(rec, pgs, _ensure_can_ssh(rec))
        c1 == check(c0, _get_instance_path(rec))
        c2 == ssh(c1, rec, fault)
        c3 == execute(c2, "compose_down", {})
        c4 == run(c3, "rm_rf", fault, "Failed to remove instance directory")
        c5 == _drop_postgresql(disconnect(c4, "connect"), fault)
    IN  finish(c5, "cancelled")

\* action_cancel removing the lines of the instance
action_cancel_m(rec, pgs, fault) ==
    finish([Context(rec, pgs) EXCEPT !.rec.module_line_ids = <<>>], "cancelled")

\* SaasInstance.action_cancel on one record
action_cancel(rec, pgs, fault) == finish(Context(rec, pgs), "cancelled")

\* action_draft with `rec.state not in ('failed',)`
action_draft_m(rec, pgs, fault) ==
    IF rec.state \notin {"failed"}
        THEN checked(rec, pgs, Error("UserError",
                "Can only reset to draft from 'Failed' or 'Cancelled' state."))
        ELSE finish(Context(rec, pgs), "draft")

\* SaasInstance.action_draft on one record
action_draft(rec, pgs, fault) ==
    IF rec.state \notin {"failed", "cancelled"}
        THEN checked(rec, pgs, Error("UserError",
                "Can only reset to draft from 'Failed' or 'Cancelled' state."))
        ELSE finish(Context(rec, pgs), "draft")

(***************************************************************************)
(* The installation of modules on a deployed instance.                     *)
(***************************************************************************)
\* `line.state = ...; line.log = ...` on line k of the instance
write_line(ctx, k, state, text) ==
    [ctx EXCEPT !.rec.module_line_ids[k].state = state,
                !.rec.module_line_ids[k].log = text]

\* names_str is logged, then `with server._get_ssh_connection() as ssh:
\* ssh.execute(install_cmd, timeout=600)`
install_cmd(ctx, names_str, fault) ==
    disconnect(execute(connect(log(ctx, "Installing modules: ", names_str),
                               docker_server(ctx.rec.docker_server_id), fault, "connect"),
                       "odoo_install", {"timeout"}),
               "connect")

\* `if exit_code != 0: ... else: ...` for line k, whose command was run
record_result(ran, k, names_str, fault) ==
    IF ran.err # NoError THEN ran
    ELSE IF exit_code("odoo_install", fault) # 0
        THEN log(write_line(ran, k, "failed", "output"),
                 "FAILED installing modules: ", names_str)
    ELSE [log(write_line(ran, k, "installed", ""),
              "Modules installed successfully: ", names_str)
             EXCEPT !.rec.installed_module_ids =
                        @ \cup line_products(ran.rec.module_line_ids[k])]

\* a loop body that takes a line without modules for installed
install_line_m(ctx, k, fault) ==
    IF ctx.err # NoError THEN ctx
    ELSE IF _get_all_technical_names(ctx.rec.module_line_ids[k]) = {}
        THEN write_line(ctx, k, "installed", "")
    ELSE record_result(
             install_cmd(ctx, sorted(_get_all_technical_names(ctx.rec.module_line_ids[k])),
                         fault),
             k, sorted(_get_all_technical_names(ctx.rec.module_line_ids[k])), fault)

\* the body of `for line in pending_lines` for line k
install_line(ctx, k, fault) ==
    IF ctx.err # NoError THEN ctx
    ELSE IF _get_all_technical_names(ctx.rec.module_line_ids[k]) = {}
        THEN write_line(ctx, k, "failed", "No modules found for this line.")
    ELSE record_result(
             install_cmd(ctx, sorted(_get_all_technical_names(ctx.rec.module_line_ids[k])),
                         fault),
             k, sorted(_get_all_technical_names(ctx.rec.module_line_ids[k])), fault)

RECURSIVE install_lines(_, _, _)
\* `for line in pending_lines`, in the order of the lines
install_lines(ctx, lines, fault) ==
    IF lines = {} THEN ctx
    ELSE LET k == CHOOSE l \in lines : \A m \in lines : l <= m
         IN  install_lines(install_line(ctx, k, fault), lines \ {k}, fault)

\* SaasInstance.action_install_modules
action_install_modules(rec, pgs, fault) ==
    LET c0 == checked(rec, pgs, _ensure_can_ssh(rec))
        c1 == check(c0, IF pending_lines(rec) = {}
                            THEN Error("UserError", "No pending modules to install.")
                            ELSE NoError)
    IN  install_lines(c1, pending_lines(rec), fault)

(***************************************************************************)
(* The call in progress or last finished: what its caller observes.        *)
(*   op, id   the operation and the instance                               *)
(*   phase    "done", or the point the operation has reached               *)
(*   prior    the instance when the operation was called: its state, and   *)
(*            whether its role and its database were on the server         *)
(*   fault    the remote call the environment makes fail ("none": none)    *)
(*   raised   the error raised to the caller (NoError: it returned)        *)
(*   cmds     the remote calls made, in order                              *)
(*   ssh      the sessions of the operation and what they leave behind     *)
(*   db_host  the address of the database server the operation wrote into  *)
(*            odoo.conf ("none": it wrote no odoo.conf)                    *)
(***************************************************************************)
\* the role and the database of the instance are on its database server
provisioned(rec, pgs) ==
    /\ rec.db_server_id # None
    /\ \E r \in pgs[rec.db_server_id].roles : r.name = rec.db_user
    /\ \E d \in pgs[rec.db_server_id].dbs : d.name = rec.subdomain

Before(rec, pgs) == [state |-> rec.state, provisioned |-> provisioned(rec, pgs)]

Called(op, i, prior, fault, raised, cmds) ==
    [op |-> op, id |-> i, phase |-> "done", prior |-> prior, fault |-> fault,
     raised |-> raised, cmds |-> cmds, ssh |-> NoSessions, db_host |-> "none"]

NoCall == Called("none", None, [state |-> "draft", provisioned |-> FALSE], "none",
                 NoError, <<>>)

\* no operation is in progress and the last result was taken
Idle == call = NoCall

NoDatabases == [roles |-> {}, dbs |-> {}]

\* no allocation of ports is under way for the instance
NoTxn == [active |-> FALSE, raised |-> NoError, xmlrpc_port |-> <<>>,
          longpolling_port |-> <<>>]

\* the wait command was not sent
NoPoll == [i |-> 0, STATUS |-> "", stdout |-> "", exit_code |-> 0, done |-> FALSE,
           observed |-> 0]

\* the workers of the server: each serves one request, in a transaction of
\* its own
Workers == 1 .. MaxWorkers

\* the worker serves no request; otherwise: the action and the instance of
\* its request, the number of remote commands it has sent, and whether the
\* row of the instance was updated by another transaction since it began
NoRequest == [op |-> "none", id |-> None, sent |-> 0, stale |-> FALSE]

Init ==
    /\ inst = [i \in Ids |-> NoInstance]
    /\ starting_port = DefaultStartingPort
    /\ pg = [d \in DbServerIds |-> NoDatabases]
    /\ call = NoCall
    /\ txn = [i \in Ids |-> NoTxn]
    /\ poll = NoPoll
    /\ workers = [w \in Workers |-> NoRequest]

\* the write of a record: the database refuses a row that breaks a UNIQUE
\* constraint
flush(instances, i, result) ==
    IF result.raised = NoError /\ ~_sql_constraints([instances EXCEPT ![i] = result.rec])
        THEN [raised |-> Error("IntegrityError", "port must be unique per Docker server"),
              rec |-> instances[i]]
        ELSE result

(***************************************************************************)
(* Operations.                                                             *)
(***************************************************************************)
\* SaasInstance.create with vals, the Docker server ds, and the two random
\* passwords.  An error raised by create leaves no record behind.
Create(i, vals, ds, pw1, pw2) ==
    /\ Idle
    /\ ~inst[i].exists
    /\ \A j \in Ids : j < i => inst[j].exists
    /\ LET rec0 == [NoInstance EXCEPT
                        !.exists = TRUE, !.state = "draft",
                        !.subdomain = vals.subdomain,
                        !.partner_id = vals.partner_id,
                        !.odoo_version_id = vals.odoo_version_id,
                        !.docker_server_id = ds,
                        !.db_server_id = vals.db_server_id,
                        !.module_line_ids = vals.module_line_ids]
           rec1 == IF rec0.db_user = <<>> /\ rec0.subdomain # <<>>
                       THEN [rec0 EXCEPT !.db_user = _generate_db_user(rec0)]
                       ELSE rec0
           rec2 == IF rec1.db_password = ""
                       THEN [rec1 EXCEPT !.db_password = pw1] ELSE rec1
           rec3 == IF rec2.admin_password = ""
                       THEN [rec2 EXCEPT !.admin_password = pw2] ELSE rec2
           created == [inst EXCEPT ![i] = rec3]
           ports == IF rec3.docker_server_id # None
                       /\ (rec3.xmlrpc_port = <<>> \/ rec3.longpolling_port = <<>>)
                       THEN flush(created, i, _auto_assign_ports(created, i, starting_port))
                       ELSE [raised |-> NoError, rec |-> rec3]
       IN  /\ inst' = IF ports.raised = NoError
                         THEN [inst EXCEPT ![i] = ports.rec]
                         ELSE inst
           /\ call' = Called("create", i, Before(rec3, pg), "none", ports.raised, <<>>)
    /\ UNCHANGED <<starting_port, pg, txn, poll, workers>>

\* res.config.settings: the administrator sets the starting port
SetStartingPort(p) ==
    /\ Idle
    /\ p # starting_port
    /\ starting_port' = p
    /\ UNCHANGED <<inst, pg, call, txn, poll, workers>>

\* write({'docker_server_id': ds}) on instance i
WriteDockerServer(i, ds) ==
    /\ Idle
    /\ inst[i].exists
    /\ inst[i].docker_server_id # ds
    /\ LET result == flush(inst, i, [raised |-> NoError,
                                     rec |-> [inst[i] EXCEPT !.docker_server_id = ds]])
       IN  /\ inst' = [inst EXCEPT ![i] = result.rec]
           /\ call' = Called("write", i, Before(inst[i], pg), "none", result.raised, <<>>)
    /\ UNCHANGED <<starting_port, pg, txn, poll, workers>>

\* write({'db_password': pw}) on instance i: the password is rotated
WriteDbPassword(i, pw) ==
    /\ Idle
    /\ inst[i].exists
    /\ inst[i].db_password # pw
    /\ inst' = [inst EXCEPT ![i].db_password = pw]
    /\ call' = Called("write", i, Before(inst[i], pg), "none", NoError, <<>>)
    /\ UNCHANGED <<starting_port, pg, txn, poll, workers>>

\* action_deploy, _do_deploy up to the `try`: validation, credentials,
\* ports, the log emptied, state provisioning, the instance path
DeployBegin(i, pw1, pw2) ==
    /\ Idle
    /\ inst[i].exists
    /\ LET rec == inst[i]
           errors == _validate_deploy_fields(rec)
           rec3 == credentials(rec, pw1, pw2)
           with_creds == [inst EXCEPT ![i] = rec3]
           ports == flush(with_creds, i, _auto_assign_ports(with_creds, i, starting_port))
           rec4 == [ports.rec EXCEPT !.provisioning_log = <<>>, !.state = "provisioning"]
       IN  IF errors # <<>>
               THEN /\ inst' = inst
                    /\ call' = Called("deploy", i, Before(rec, pg), "none",
                                      Error("ValidationError", join(errors)), <<>>)
           ELSE IF ports.raised # NoError
               THEN /\ inst' = with_creds
                    /\ call' = Called("deploy", i, Before(rec, pg), "none", ports.raised, <<>>)
           ELSE IF _get_instance_path(rec4) # NoError
               THEN /\ inst' = [inst EXCEPT ![i] = rec4]
                    /\ call' = Called("deploy", i, Before(rec, pg), "none",
                                      _get_instance_path(rec4), <<>>)
           ELSE /\ inst' = [inst EXCEPT ![i] = rec4]
                /\ call' = [Called("deploy", i, Before(rec, pg), "none", NoError, <<>>)
                               EXCEPT !.phase = "provisioning"]
    /\ UNCHANGED <<starting_port, pg, txn, poll, workers>>

\* _do_deploy from the `try` to its end, the remote call `fault` failing
DeployRun(i, fault) ==
    /\ call.op = "deploy" /\ call.phase = "provisioning" /\ call.id = i
    /\ LET out == deploy_outcome(Context(inst[i], pg), fault)
       IN  /\ inst' = [inst EXCEPT ![i] = out.rec]
           /\ pg' = out.pg
           /\ call' = [Called("deploy", i, call.prior, fault, out.err, out.cmds)
                           EXCEPT !.ssh = out.ssh, !.db_host = out.db_host]
    /\ UNCHANGED <<starting_port, txn, poll, workers>>

\* the result `out` of a lifecycle action on instance i is stored
Finished(op, i, fault, out) ==
    /\ inst' = [inst EXCEPT ![i] = out.rec]
    /\ pg' = out.pg
    /\ call' = [Called(op, i, Before(inst[i], pg), fault, out.err, out.cmds)
                   EXCEPT !.ssh = out.ssh]
    /\ UNCHANGED <<starting_port, txn, poll, workers>>

Stop(i, fault) ==
    /\ Idle /\ inst[i].exists
    /\ Finished("stop", i, fault, action_stop(inst[i], pg, fault))

Restart(i, fault) ==
    /\ Idle /\ inst[i].exists
    /\ Finished("restart", i, fault, action_restart(inst[i], pg, fault))

Redeploy(i, fault) ==
    /\ Idle /\ inst[i].exists
    /\ Finished("redeploy", i, fault, action_redeploy(inst[i], pg, fault))

Suspend(i, fault) ==
    /\ Idle /\ inst[i].exists
    /\ Finished("suspend", i, fault, action_suspend(inst[i], pg, fault))

DeleteInstance(i, fault) ==
    /\ Idle /\ inst[i].exists
    /\ Finished("delete", i, fault, action_delete_instance(inst[i], pg, fault))

Cancel(i) ==
    /\ Idle /\ inst[i].exists
    /\ Finished("cancel", i, "none", action_cancel(inst[i], pg, "none"))

Draft(i) ==
    /\ Idle /\ inst[i].exists
    /\ Finished("draft", i, "none", action_draft(inst[i], pg, "none"))

\* the "Installing modules" entries of the log of the instance
installs(rec) ==
    {k \in 1 .. Len(rec.provisioning_log) :
        rec.provisioning_log[k].text = "Installing modules: "}

InstallModules(i, fault) ==
    /\ Idle /\ inst[i].exists
    /\ Cardinality(installs(inst[i])) < MaxInstalls
    /\ Finished("install", i, fault, action_install_modules(inst[i], pg, fault))

\* the shell of the Docker host runs one iteration of wait_cmd and
\* `docker inspect` answers `status`
Inspect(status) ==
    /\ call.op = "deploy" /\ call.phase = "waiting"
    /\ ~poll.done /\ poll.i < Attempts
    /\ poll' = inspect(poll, status)
    /\ UNCHANGED <<inst, starting_port, pg, call, txn, workers>>

\* the loop of wait_cmd has made its last iteration
Timeout ==
    /\ call.op = "deploy" /\ call.phase = "waiting"
    /\ ~poll.done /\ poll.i = Attempts
    /\ poll' = timeout(poll)
    /\ UNCHANGED <<inst, starting_port, pg, call, txn, workers>>

\* ssh.execute(wait_cmd) returns: _do_deploy from there to its end
DeployWaited(i) ==
    /\ call.op = "deploy" /\ call.phase = "waiting" /\ call.id = i
    /\ poll.done
    /\ LET ran == [Context(inst[i], pg) EXCEPT !.cmds = call.cmds, !.ssh = call.ssh]
           out == except(disconnect(wait_result(ran, poll.exit_code, poll.stdout),
                                    "connect"))
       IN  /\ inst' = [inst EXCEPT ![i] = out.rec]
           /\ pg' = out.pg
           /\ call' = [Called("deploy", i, call.prior, "none", out.err, out.cmds)
                           EXCEPT !.ssh = out.ssh]
    /\ UNCHANGED <<starting_port, txn, poll, workers>>

\* the caller has the result of the call: the next operation can be called
Return ==
    /\ call.phase = "done" /\ call # NoCall
    /\ call' = NoCall
    /\ UNCHANGED <<inst, starting_port, pg, txn, poll, workers>>

(***************************************************************************)
(* The inputs of the operations.                                           *)
(***************************************************************************)
DeployFaults == {"none", "connect", "mkdir", "chown_chmod", "write_dc", "write_conf",
                 "db_connect", "ensure_role", "createdb", "odoo_init", "compose_up",
                 "wait_ready"}

ContainerFaults == {"none", "connect", "docker_stop", "docker_restart",
                    "compose_stop", "compose_up"}

DeleteFaults == {"none", "connect", "compose_down", "rm_rf", "db_connect",
                 "dropdb", "dropuser"}

\* two draws of 24 random characters are taken to differ
PasswordDraws == {pws \in Passwords \X Passwords : pws[1] # pws[2]}

(***************************************************************************)
(* Spec: the lifecycle of the instances 1 .. MaxDeployed, every remote     *)
(* call able to fail.                                                      *)
(***************************************************************************)
Deployed == 1 .. MaxDeployed

Next ==
    \/ \E i \in Deployed, vals \in CreateVals, ds \in {None} \cup DockerServerIds,
          pws \in PasswordDraws : Create(i, vals, ds, pws[1], pws[2])
    \/ \E p \in {DefaultStartingPort, DefaultStartingPort + 1} : SetStartingPort(p)
    \/ \E i \in Deployed, ds \in {None} \cup DockerServerIds : WriteDockerServer(i, ds)
    \/ \E i \in Deployed, pws \in PasswordDraws : DeployBegin(i, pws[1], pws[2])
    \/ \E i \in Deployed, fault \in DeployFaults : DeployRun(i, fault)
    \/ \E i \in Deployed, fault \in ContainerFaults : Stop(i, fault)
    \/ \E i \in Deployed, fault \in ContainerFaults : Restart(i, fault)
    \/ \E i \in Deployed, fault \in ContainerFaults : Redeploy(i, fault)
    \/ \E i \in Deployed, fault \in ContainerFaults : Suspend(i, fault)
    \/ \E i \in Deployed, fault \in DeleteFaults : DeleteInstance(i, fault)
    \/ \E i \in Deployed : Cancel(i)
    \/ \E i \in Deployed : Draft(i)
    \/ Return

Spec == Init /\ [][Next]_vars

(***************************************************************************)
(* SpecPorts: the ports of the instances 1 .. MaxInstances over the        *)
(* operations that create, place and deploy them and that set the          *)
(* starting port; the instances are complete and the Docker host is out    *)
(* of reach.                                                               *)
(***************************************************************************)
PortsVals == {vals \in CreateVals : vals.subdomain = <<"a", "_", "b">>}

PortsServers == {None, 1, 2}

NextPorts ==
    \/ \E i \in Ids, vals \in PortsVals, ds \in PortsServers :
          Create(i, vals, ds, "pwA", "pwB")
    \/ \E p \in StartingPorts : SetStartingPort(p)
    \/ \E i \in Ids, ds \in PortsServers : WriteDockerServer(i, ds)
    \/ \E i \in Ids : DeployBegin(i, "pwA", "pwB")
    \/ \E i \in Ids : DeployRun(i, "connect")
    \/ Return

SpecPorts == Init /\ [][NextPorts]_vars

(***************************************************************************)
(* SpecModules: the installation of modules on the instances               *)
(* 1 .. MaxDeployed, at deploy time and afterwards; the instances are      *)
(* complete, on Docker server 1, and differ by their lines.                *)
(***************************************************************************)
\* a pending line for a module or for a bundle
module_line(id) ==
    [product_id |-> IF id \in BundleIds THEN id ELSE None,
     module_id |-> IF id \in ModuleIds THEN id ELSE None,
     state |-> "pending", log |-> ""]

\* the lines of an instance: none, one line for each module and bundle, one
\* line with neither, a bundle without modules before a module, a bundle
\* and one of its modules
ModuleLines ==
    {<<>>} \cup {<<module_line(id)>> : id \in ModuleIds \cup BundleIds \cup {None}}
           \cup {<<module_line(12), module_line(1)>>,
                 <<module_line(11), module_line(4)>>}

ModuleVals ==
    {[subdomain |-> <<"a", "_", "b">>, partner_id |-> 1, odoo_version_id |-> 1,
      db_server_id |-> 1, module_line_ids |-> lines] : lines \in ModuleLines}

InstallFaults == {"none", "connect", "odoo_install"}

NextModules ==
    \/ \E i \in Deployed, vals \in ModuleVals : Create(i, vals, 1, "pwA", "pwB")
    \/ \E i \in Deployed : DeployBegin(i, "pwA", "pwB")
    \/ \E i \in Deployed, fault \in {"none", "connect"} : DeployRun(i, fault)
    \/ \E i \in Deployed, fault \in InstallFaults : InstallModules(i, fault)
    \/ Return

SpecModules == Init /\ [][NextModules]_vars

(***************************************************************************)
(* SpecPoll: the readiness poll of a deploy, from the moment wait_cmd is   *)
(* sent (the steps before it have returned 0) to the end of _do_deploy;    *)
(* the status `docker inspect` answers is the environment's at each        *)
(* iteration.  SpecPollFair: the shell and the deploy keep running.        *)
(***************************************************************************)
\* what `docker inspect -f "{{.State.Status}}" ... 2>/dev/null` prints: a
\* container status, or nothing when there is no such container
Statuses == {"running", "exited", "dead", "created", "restarting", ""}

\* the instance whose deploy sends wait_cmd
Waiting ==
    [NoInstance EXCEPT
        !.exists = TRUE, !.state = "provisioning",
        !.subdomain = <<"a", "_", "b">>, !.partner_id = 1, !.odoo_version_id = 1,
        !.docker_server_id = 1, !.db_server_id = 1,
        !.xmlrpc_port = str(DefaultStartingPort),
        !.longpolling_port = str(DefaultStartingPort + 1),
        !.admin_password = "pwB", !.db_password = "pwA",
        !.db_user = _generate_db_user([subdomain |-> <<"a", "_", "b">>]),
        !.provisioning_log = <<[text |-> "Waiting for container to be ready...",
                                detail |-> <<>>]>>]

InitPoll ==
    /\ inst = [i \in Ids |-> IF i = 1 THEN Waiting ELSE NoInstance]
    /\ starting_port = DefaultStartingPort
    /\ pg = [d \in DbServerIds |->
                IF d = Waiting.db_server_id
                    THEN create_db(ensure_role(NoDatabases, Waiting.db_user,
                                               Waiting.db_password),
                                   Waiting.db_user, Waiting.subdomain)
                    ELSE NoDatabases]
    /\ call = [Called("deploy", 1, [state |-> "draft", provisioned |-> FALSE], "none",
                      NoError, <<"compose_up", "wait_ready">>)
                  EXCEPT !.phase = "waiting",
                         !.ssh = [opened |-> <<"connect", "db_connect">>,
                                  clients |-> {"connect"}, key_tmpfiles |-> 1]]
    /\ txn = [i \in Ids |-> NoTxn]
    /\ poll = NoPoll
    /\ workers = [w \in Workers |-> NoRequest]

NextPoll ==
    \/ \E status \in Statuses : Inspect(status)
    \/ Timeout
    \/ DeployWaited(1)
    \/ Return

SpecPoll == InitPoll /\ [][NextPoll]_vars

SpecPollFair == SpecPoll /\ WF_vars(NextPoll)

(***************************************************************************)
(* SpecEnsure: _provision_postgresql called again and again by the deploys *)
(* of the instances 1 .. MaxInstances, which share database server 1 and,  *)
(* their subdomains being a-b or a_b, the role saas_a_b; the password of   *)
(* an instance can be rotated between two deploys.                         *)
(***************************************************************************)
EnsureVals == {vals \in CreateVals : vals.subdomain \in {<<"a", "-", "b">>, <<"a", "_", "b">>}}

EnsureFaults == {"none", "db_connect", "ensure_role", "createdb"}

NextEnsure ==
    \/ \E i \in Ids, vals \in EnsureVals : Create(i, vals, 1, "pwA", "pwB")
    \/ \E i \in Ids, pw \in Passwords : WriteDbPassword(i, pw)
    \/ \E i \in Ids : DeployBegin(i, "pwA", "pwB")
    \/ \E i \in Ids, fault \in EnsureFaults : DeployRun(i, fault)
    \/ Return

SpecEnsure == Init /\ [][NextEnsure]_vars

(***************************************************************************)
(* SpecOps: every operation of the orchestrator on the instances           *)
(* 1 .. MaxDeployed, which are on Docker server 1 and, but for one that    *)
(* has no customer, complete; of the remote calls, the two connections can *)
(* fail.                                                                   *)
(***************************************************************************)
OpsVals ==
    {vals \in ModuleVals :
        vals.module_line_ids \in {<<>>, <<module_line(1)>>,
                                  <<module_line(12), module_line(1)>>,
                                  <<module_line(11), module_line(4)>>}}
    \cup {[vals EXCEPT !.partner_id = None] :
             vals \in {v \in ModuleVals : v.module_line_ids = <<module_line(1)>>}}

OpsFaults == {"none", "connect", "db_connect"}

NextOps ==
    \/ \E i \in Deployed, vals \in OpsVals : Create(i, vals, 1, "pwA", "pwB")
    \/ \E i \in Deployed, pws \in PasswordDraws : DeployBegin(i, pws[1], pws[2])
    \/ \E i \in Deployed, fault \in OpsFaults : DeployRun(i, fault)
    \/ \E i \in Deployed, fault \in OpsFaults : Stop(i, fault)
    \/ \E i \in Deployed, fault \in OpsFaults : Restart(i, fault)
    \/ \E i \in Deployed, fault \in OpsFaults : Redeploy(i, fault)
    \/ \E i \in Deployed, fault \in OpsFaults : Suspend(i, fault)
    \/ \E i \in Deployed, fault \in OpsFaults : DeleteInstance(i, fault)
    \/ \E i \in Deployed : Cancel(i)
    \/ \E i \in Deployed : Draft(i)
    \/ \E i \in Deployed, fault \in OpsFaults : InstallModules(i, fault)
    \/ Return

SpecOps == Init /\ [][NextOps]_vars

(***************************************************************************)
(* SpecConf: the odoo.conf written by the deploys of the instances         *)
(* 1 .. MaxInstances, which are complete and differ by their database      *)
(* server: one with a public address only, and two with both addresses,    *)
(* reached by the public one and by the private one.                       *)
(***************************************************************************)
ConfVals ==
    {[vals EXCEPT !.db_server_id = d] :
        vals \in {v \in CreateVals : v.subdomain = <<"a", "_", "b">>}, d \in {1, 3, 4}}

NextConf ==
    \/ \E i \in Ids, vals \in ConfVals : Create(i, vals, 1, "pwA", "pwB")
    \/ \E i \in Ids : DeployBegin(i, "pwA", "pwB")
    \/ \E i \in Ids, fault \in {"none", "write_dc", "write_conf"} : DeployRun(i, fault)
    \/ Return

SpecConf == Init /\ [][NextConf]_vars

(***************************************************************************)
(* SpecRequests: the lifecycle actions that write the instance at their    *)
(* end only (stop, restart, redeploy, suspend, delete), requested from     *)
(* several workers.  The code takes no lock and, but for the SSH           *)
(* preconditions, looks at nothing before it sends its commands; the       *)
(* database refuses the UPDATE of a row that another transaction has       *)
(* updated since the transaction began.                                    *)
(***************************************************************************)
\* the remote commands of the action, in order, when each returns 0
commands(op) ==
    CASE op = "stop" -> <<"docker_stop">>
      [] op = "restart" -> <<"docker_restart">>
      [] op = "redeploy" -> <<"compose_stop", "compose_up">>
      [] op = "suspend" -> <<"docker_stop">>
      [] OTHER -> <<"compose_down", "rm_rf", "dropdb", "dropuser">>

\* the state the action assigns at its end
target(op) ==
    CASE op = "stop" -> "stopped"
      [] op = "restart" -> "running"
      [] op = "redeploy" -> "running"
      [] op = "suspend" -> "suspended"
      [] OTHER -> "cancelled"

Requests == {"stop", "restart", "redeploy", "suspend", "delete"}

\* worker w takes the request of action op on instance i: _ensure_can_ssh,
\* and the session is opened
Begin(w, op, i) ==
    /\ Idle
    /\ workers[w] = NoRequest
    /\ inst[i].exists
    /\ _ensure_can_ssh(inst[i]) = NoError
    /\ workers' = [workers EXCEPT ![w] = [NoRequest EXCEPT !.op = op, !.id = i]]
    /\ UNCHANGED <<inst, starting_port, pg, call, txn, poll>>

\* worker w sends the next remote command of its action, which returns 0
Send(w) ==
    /\ workers[w] # NoRequest
    /\ workers[w].sent < Len(commands(workers[w].op))
    /\ workers' = [workers EXCEPT ![w].sent = @ + 1]
    /\ UNCHANGED <<inst, starting_port, pg, call, txn, poll>>

\* `rec.state = ...` and the commit of the transaction of worker w
End(w) ==
    /\ workers[w] # NoRequest
    /\ workers[w].sent = Len(commands(workers[w].op))
    /\ ~workers[w].stale
    /\ inst' = [inst EXCEPT ![workers[w].id].state = target(workers[w].op)]
    /\ workers' = [v \in Workers |->
                      IF v = w THEN NoRequest
                      ELSE IF workers[v].id = workers[w].id
                          THEN [workers[v] EXCEPT !.stale = TRUE]
                      ELSE workers[v]]
    /\ UNCHANGED <<starting_port, pg, call, txn, poll>>

\* the UPDATE of worker w is refused: its transaction is rolled back
Refused(w) ==
    /\ workers[w] # NoRequest
    /\ workers[w].sent = Len(commands(workers[w].op))
    /\ workers[w].stale
    /\ workers' = [workers EXCEPT ![w] = NoRequest]
    /\ UNCHANGED <<inst, starting_port, pg, call, txn, poll>>

RequestsVals == {vals \in CreateVals : vals.subdomain = <<"a", "_", "b">>}

NextRequests ==
    \/ \E i \in Ids, vals \in RequestsVals : Create(i, vals, 1, "pwA", "pwB")
    \/ Return
    \/ \E w \in Workers, op \in Requests, i \in Ids : Begin(w, op, i)
    \/ \E w \in Workers : Send(w)
    \/ \E w \in Workers : End(w)
    \/ \E w \in Workers : Refused(w)

SpecRequests == Init /\ [][NextRequests]_vars

(***************************************************************************)
(* SpecRace: _auto_assign_ports run by concurrent transactions.  The code  *)
(* takes no lock: a transaction reads the parameter and the siblings       *)
(* (lines 366-399), and writes its two ports later (lines 401-402); what   *)
(* it wrote is flushed under the UNIQUE constraints.  The instances are    *)
(* created without server and placed on Docker server 1.                   *)
(***************************************************************************)
\* lines 366-399 for instance i: the candidate found in the snapshot
AllocRead(i) ==
    /\ Idle
    /\ inst[i].exists /\ inst[i].docker_server_id # None
    /\ ~txn[i].active
    /\ ~(inst[i].xmlrpc_port # <<>> /\ inst[i].longpolling_port # <<>>)
    /\ LET found == _auto_assign_ports(inst, i, starting_port)
       IN  txn' = [txn EXCEPT ![i] = [active |-> TRUE, raised |-> found.raised,
                                      xmlrpc_port |-> found.rec.xmlrpc_port,
                                      longpolling_port |-> found.rec.longpolling_port]]
    /\ UNCHANGED <<inst, starting_port, pg, call, poll, workers>>

\* lines 401-402 for instance i, and the flush of the row
AllocWrite(i) ==
    /\ txn[i].active
    /\ LET result == flush(inst, i,
                           [raised |-> txn[i].raised,
                            rec |-> [inst[i] EXCEPT
                                        !.xmlrpc_port = txn[i].xmlrpc_port,
                                        !.longpolling_port = txn[i].longpolling_port]])
       IN  inst' = [inst EXCEPT ![i] = result.rec]
    /\ txn' = [txn EXCEPT ![i] = NoTxn]
    /\ UNCHANGED <<starting_port, pg, call, poll, workers>>

NextRace ==
    \/ \E i \in Ids, vals \in PortsVals : Create(i, vals, None, "pwA", "pwB")
    \/ \E i \in Ids : WriteDockerServer(i, 1)
    \/ \E p \in StartingPorts : SetStartingPort(p)
    \/ \E i \in Ids : AllocRead(i)
    \/ \E i \in Ids : AllocWrite(i)
    \/ Return

SpecRace == Init /\ [][NextRace]_vars

(***************************************************************************)
(* Properties.                                                             *)
(***************************************************************************)
\* the instance has both ports
has_ports(rec) == rec.xmlrpc_port # <<>> /\ rec.longpolling_port # <<>>

\* the port numbers the instance holds
held(rec) ==
    {int(p) : p \in {q \in {rec.xmlrpc_port, rec.longpolling_port} : q # <<>>}}

\* the last call was a deploy of an instance, and it is over
DeployDone == call.op = "deploy" /\ call.phase = "done"

\* C1: a deploy of an instance that passes validation, that reaches the
\* remote commands and in which no remote call fails, returns without
\* raising and leaves the instance in state running.
C1_DeploySucceeds ==
    (/\ DeployDone
     /\ call.fault = "none"
     /\ call.cmds # <<>>
     /\ _validate_deploy_fields(inst[call.id]) = <<>>)
    => (call.raised = NoError /\ inst[call.id].state = "running")

\* C2: whenever deploy raises an error that is not a validation failure of
\* step 1, the instance is in state failed and the last entry of its
\* provisioning log is the failure with the text of the error.
C2_DeployErrorIsRecorded ==
    (/\ DeployDone
     /\ call.raised # NoError
     /\ _validate_deploy_fields(inst[call.id]) = <<>>)
    => LET rec == inst[call.id]
       IN  /\ rec.state = "failed"
           /\ rec.provisioning_log # <<>>
           /\ rec.provisioning_log[Len(rec.provisioning_log)].text = "DEPLOYMENT FAILED: "

\* what validation refuses, in the words of the contract: a missing
\* subdomain, Docker server, database server, version, image, image tag,
\* customer, SSH private key, or IP of the configured connect-mode
C3_Invalid(rec) ==
    \/ rec.subdomain = <<>>
    \/ rec.docker_server_id = None
    \/ rec.db_server_id = None
    \/ rec.odoo_version_id = None
    \/ ~odoo_version(rec.odoo_version_id).docker_image
    \/ ~odoo_version(rec.odoo_version_id).docker_image_tag
    \/ rec.partner_id = None
    \/ ~docker_server(rec.docker_server_id).private_key_file
    \/ ~db_server(rec.db_server_id).private_key_file
    \/ IF docker_server(rec.docker_server_id).ssh_connect_using = "private_ip"
          THEN ~docker_server(rec.docker_server_id).private_ip_v4
          ELSE ~docker_server(rec.docker_server_id).ip_v4
    \/ IF db_server(rec.db_server_id).ssh_connect_using = "private_ip"
          THEN ~db_server(rec.db_server_id).private_ip_v4
          ELSE ~db_server(rec.db_server_id).ip_v4

\* C3: a deploy of an instance that validation refuses raises a
\* ValidationError at once, with no remote call made, and leaves every field
\* of the instance, and the databases, as they were.
C3_ValidationFailureChangesNothing ==
    [][\A i \in Ids :
          (Idle /\ call'.op = "deploy" /\ call'.id = i /\ C3_Invalid(inst[i]))
          => /\ call'.phase = "done"
             /\ call'.raised.type = "ValidationError"
             /\ call'.cmds = <<>>
             /\ inst'[i] = inst[i]
             /\ pg' = pg]_vars

\* C3 happens: a deploy was refused by validation on an instance that an
\* earlier deploy had left with ports and a log
C3_Witness ==
    /\ DeployDone
    /\ call.raised.type = "ValidationError"
    /\ call.cmds = <<>>
    /\ C3_Invalid(inst[call.id])
    /\ has_ports(inst[call.id])
    /\ inst[call.id].provisioning_log # <<>>

\* the ports used on the Docker server of instance i by the other instances
C4_Used(instances, i) ==
    UNION {held(instances[j]) :
             j \in {k \in Ids \ {i} :
                      /\ instances[k].exists
                      /\ instances[k].docker_server_id = instances[i].docker_server_id}}

\* (c, c + 1) is free of U and under the ceiling
C4_Free(c, U) == c \notin U /\ (c + 1) \notin U /\ c + 1 <= PortCeiling

\* the values s + 2k from s to last
C4_Steps(s, last) == {c \in s .. last : (c - s) % 2 = 0}

\* C4: an allocation for an instance without ports assigns (c, c + 1), c
\* the smallest s + 2k with c and c + 1 unused on the server and
\* c + 1 <= 65535; it fails, assigning nothing, exactly when there is no
\* such c.  From 32000 the first instance of a server gets (32000, 32001)
\* and the second (32002, 32003).
C4_SmallestFreePair ==
    [][\A i \in Ids :
          LET U == C4_Used(inst', i)
              s == starting_port
              c == int(inst'[i].xmlrpc_port)
              tried == /\ Idle /\ call'.id = i
                       /\ ~has_ports(inst[i])
                       /\ \/ call'.op = "create"
                             /\ (inst'[i].exists => inst'[i].docker_server_id # None)
                          \/ call'.op = "deploy"
                             /\ _validate_deploy_fields(inst[i]) = <<>>
              failed == call'.raised.msg = "No available port pair found on server"
          IN  /\ (~has_ports(inst[i]) /\ has_ports(inst'[i]))
                 => /\ c \in C4_Steps(s, c)
                    /\ C4_Free(c, U)
                    /\ \A b \in C4_Steps(s, c - 1) : ~C4_Free(b, U)
                    /\ inst'[i].longpolling_port = str(c + 1)
                    /\ (s = 32000 /\ U = {}) => c = 32000
                    /\ (s = 32000 /\ U = {32000, 32001}) => c = 32002
              /\ tried => (has_ports(inst'[i]) \/ failed)
              /\ (tried /\ failed)
                 => /\ ~has_ports(inst'[i])
                    /\ call'.op = "deploy"
                       => \A b \in C4_Steps(s, PortCeiling) : ~C4_Free(b, U)]_vars

\* C4 happens: from 32000 two instances of one server hold (32000, 32001)
\* and (32002, 32003)
C4_Witness ==
    /\ starting_port = DefaultStartingPort
    /\ \E i, j \in Ids :
          /\ inst[i].exists /\ inst[j].exists
          /\ inst[i].docker_server_id = inst[j].docker_server_id
          /\ inst[i].xmlrpc_port = str(32000) /\ inst[i].longpolling_port = str(32001)
          /\ inst[j].xmlrpc_port = str(32002) /\ inst[j].longpolling_port = str(32003)

\* C5: after any sequence of operations run one after the other, every
\* instance with ports has longpolling port = HTTP port + 1, and no port
\* number is held by two instances of the same Docker server.
C5_PortsConsecutiveAndUnique ==
    /\ \A i \in Ids :
          (inst[i].exists /\ has_ports(inst[i]))
          => int(inst[i].longpolling_port) = int(inst[i].xmlrpc_port) + 1
    /\ \A i, j \in Ids :
          (/\ i # j /\ inst[i].exists /\ inst[j].exists
           /\ inst[i].docker_server_id # None
           /\ inst[i].docker_server_id = inst[j].docker_server_id)
          => held(inst[i]) \cap held(inst[j]) = {}

\* C6: two allocations for two instances of one Docker server that run
\* concurrently, each reading its snapshot and writing later, never both
\* end up with the same port number.
C6_ConcurrentAllocationsDisjoint ==
    \A i, j \in Ids :
        (/\ i # j /\ inst[i].exists /\ inst[j].exists
         /\ ~txn[i].active /\ ~txn[j].active
         /\ inst[i].docker_server_id # None
         /\ inst[i].docker_server_id = inst[j].docker_server_id
         /\ has_ports(inst[i]) /\ has_ports(inst[j]))
        => {int(inst[i].xmlrpc_port), int(inst[i].longpolling_port)}
           \cap {int(inst[j].xmlrpc_port), int(inst[j].longpolling_port)} = {}

\* the names of the roles of each database server
C7_Roles(pgs) == [d \in DbServerIds |-> {r.name : r \in pgs[d].roles}]

\* the databases of each database server
C7_Databases(pgs) == [d \in DbServerIds |-> pgs[d].dbs]

\* C7: a deploy of a running instance that has its ports, its role and its
\* database leaves the roles, the databases and the two ports of the
\* instance as they were, at each of its steps.
C7_SecondDeployIsIdempotent ==
    [][\A i \in Ids :
          (/\ call'.op = "deploy" /\ call'.id = i /\ call' # call
           /\ call'.prior.state = "running" /\ call'.prior.provisioned
           /\ has_ports(inst[i]))
          => /\ C7_Roles(pg') = C7_Roles(pg)
             /\ C7_Databases(pg') = C7_Databases(pg)
             /\ inst'[i].xmlrpc_port = inst[i].xmlrpc_port
             /\ inst'[i].longpolling_port = inst[i].longpolling_port]_vars

\* C7 happens: a deploy of a running instance that had its role and its
\* database ran the role and database commands again
C7_Witness ==
    /\ DeployDone
    /\ call.prior.state = "running" /\ call.prior.provisioned
    /\ has_ports(inst[call.id])
    /\ \E k, l \in 1 .. Len(call.cmds) :
          call.cmds[k] = "ensure_role" /\ call.cmds[l] = "createdb"

\* C8: from state failed an action moves an instance to draft, by the
\* reset, or to cancelled, by the delete, and to no other state.
C8_FromFailed ==
    [][\A i \in Ids :
          (inst[i].exists /\ inst[i].state = "failed" /\ inst'[i].state # "failed")
          => \/ inst'[i].state = "draft" /\ call'.op = "draft"
             \/ inst'[i].state = "cancelled" /\ call'.op = "delete"]_vars

\* C9: from state cancelled an action moves an instance to draft, by the
\* reset, and to no other state.
C9_FromCancelled ==
    [][\A i \in Ids :
          (inst[i].exists /\ inst[i].state = "cancelled" /\ inst'[i].state # "cancelled")
          => (inst'[i].state = "draft" /\ call'.op = "draft")]_vars

\* C10: an instance enters state provisioning from draft or failed only.
C10_ProvisioningFromDraftOrFailed ==
    [][\A i \in Ids :
          (inst[i].exists /\ inst'[i].state = "provisioning"
           /\ inst[i].state # "provisioning")
          => inst[i].state \in {"draft", "failed"}]_vars

\* C11: the reset to draft of an instance in state failed or cancelled
\* returns and sets the state to draft; in every other state it raises a
\* UserError and leaves the instance as it was.
C11_ResetOnlyFromFailedOrCancelled ==
    [][\A i \in Ids :
          (Idle /\ call'.op = "draft" /\ call'.id = i)
          => IF inst[i].state \in {"failed", "cancelled"}
                 THEN call'.raised = NoError /\ inst'[i].state = "draft"
                 ELSE call'.raised.type = "UserError" /\ inst'[i] = inst[i]]_vars

\* C11 happens: the reset of a running instance was refused
C11_Witness ==
    /\ call.op = "draft"
    /\ call.raised.type = "UserError"
    /\ call.prior.state = "running"
    /\ inst[call.id].state = "running"

\* the last call was a delete whose directory removal returned 0
RemovalDone ==
    /\ call.op = "delete" /\ call.phase = "done"
    /\ call.fault # "rm_rf"
    /\ \E k \in 1 .. Len(call.cmds) : call.cmds[k] = "rm_rf"

\* C12: a delete called in any state but cancelled, the SSH preconditions
\* holding (on the Docker server and on a configured database server) and
\* the directory removal succeeding, ends with the instance in state
\* cancelled.
C12_DeleteFromEveryState ==
    (/\ RemovalDone
     /\ call.prior.state \in States \ {"cancelled"}
     /\ _ensure_can_ssh(inst[call.id]) = NoError
     /\ inst[call.id].db_server_id # None
     /\ _get_ssh_connection(db_server(inst[call.id].db_server_id)) = NoError)
    => inst[call.id].state = "cancelled"

\* the state that stop, restart and redeploy assign
C13_Target(op) == IF op = "stop" THEN "stopped" ELSE "running"

\* the remote commands of stop, restart and redeploy, in order
C13_Commands(op) ==
    CASE op = "stop" -> <<"docker_stop">>
      [] op = "restart" -> <<"docker_restart">>
      [] OTHER -> <<"compose_stop", "compose_up">>

\* C13: stop, restart and redeploy assign the new state only when every
\* remote command was sent and returned 0; when an SSH precondition fails
\* or a command exits non-zero the action raises, the failing command is
\* the last one sent, and the instance is left as it was.
C13_StateOnlyAfterSuccess ==
    [][\A i \in Ids :
          (Idle /\ call'.op \in {"stop", "restart", "redeploy"} /\ call'.id = i)
          => LET sent == call'.cmds
                 failing == {k \in 1 .. Len(sent) : exit_code(sent[k], call'.fault) # 0}
             IN  IF call'.raised = NoError
                     THEN /\ inst'[i].state = C13_Target(call'.op)
                          /\ sent = C13_Commands(call'.op)
                          /\ failing = {}
                          /\ _ensure_can_ssh(inst[i]) = NoError
                     ELSE /\ inst'[i] = inst[i]
                          /\ failing \subseteq {Len(sent)}
                          /\ (_ensure_can_ssh(inst[i]) # NoError
                                 \/ call'.fault = "connect") => sent = <<>>]_vars

\* C13 happens: the first command of a redeploy of a running instance
\* exited non-zero, the second was not sent and the instance is running
C13_Witness ==
    /\ call.op = "redeploy"
    /\ call.fault = "compose_stop"
    /\ call.raised.type = "UserError"
    /\ call.cmds = <<"compose_stop">>
    /\ call.prior.state = "running"
    /\ inst[call.id].state = "running"

\* C14: whatever the state of the instance, a suspend whose SSH
\* preconditions hold and whose stop command returns 0 returns and sets the
\* state to suspended.
C14_SuspendFromAnyState ==
    [][\A i \in Ids :
          (/\ Idle /\ call'.op = "suspend" /\ call'.id = i
           /\ _ensure_can_ssh(inst[i]) = NoError
           /\ call'.fault \notin {"connect", "docker_stop"})
          => /\ call'.raised = NoError
             /\ call'.cmds = <<"docker_stop">>
             /\ inst'[i].state = "suspended"]_vars

\* C14 happens: a cancelled instance was suspended
C14_Witness ==
    /\ call.op = "suspend"
    /\ call.raised = NoError
    /\ call.prior.state = "cancelled"
    /\ inst[call.id].state = "suspended"

\* C15: once the directory removal of a delete has succeeded, the delete
\* returns without raising and the instance is cancelled, whatever happens
\* in the database teardown (database or role gone, a drop that fails, a
\* database server that cannot be reached).
C15_TeardownNeverRaises ==
    RemovalDone => /\ call.raised = NoError
                   /\ inst[call.id].state = "cancelled"

\* C16: in a delete that reached the Docker server, a non-zero exit of
\* `docker compose down` is ignored (the directory removal is sent next and
\* the delete ends as it does without that failure), while a non-zero exit
\* of the directory removal raises a UserError, no drop command is sent,
\* the database server is untouched and the instance is left as it was.
C16_OnlyRemovalIsFatal ==
    [][\A i \in Ids :
          (/\ Idle /\ call'.op = "delete" /\ call'.id = i
           /\ _ensure_can_ssh(inst[i]) = NoError
           /\ _get_instance_path(inst[i]) = NoError)
          => /\ call'.fault = "compose_down"
                => /\ Len(call'.cmds) >= 2
                   /\ call'.cmds[1] = "compose_down"
                   /\ call'.cmds[2] = "rm_rf"
                   /\ call'.raised.type # "UserError"
                   /\ (inst[i].db_server_id # None
                          /\ _get_ssh_connection(db_server(inst[i].db_server_id)) = NoError)
                      => (call'.raised = NoError /\ inst'[i].state = "cancelled")
             /\ call'.fault = "rm_rf"
                => /\ call'.raised.type = "UserError"
                   /\ call'.cmds = <<"compose_down", "rm_rf">>
                   /\ pg' = pg
                   /\ inst'[i] = inst[i]]_vars

\* C16 happens: the directory removal of a provisioned, stopped instance
\* failed; its role and database are still there and it is still stopped
C16_Witness ==
    /\ call.op = "delete"
    /\ call.fault = "rm_rf"
    /\ call.raised.type = "UserError"
    /\ call.prior.state = "stopped"
    /\ call.prior.provisioned
    /\ provisioned(inst[call.id], pg)
    /\ inst[call.id].state = "stopped"

\* C17: an install-modules call on an instance that has pending lines and
\* can be reached returns without raising, whether the installation command
\* exits 0 or not, and every line that was pending when it was called is
\* installed or failed afterwards.
C17_EveryPendingLineProcessed ==
    [][\A i \in Ids :
          (/\ Idle /\ call'.op = "install" /\ call'.id = i
           /\ _ensure_can_ssh(inst[i]) = NoError
           /\ pending_lines(inst[i]) # {}
           /\ call'.fault \in {"none", "odoo_install"})
          => /\ call'.raised = NoError
             /\ \A k \in pending_lines(inst[i]) :
                   inst'[i].module_line_ids[k].state \in {"installed", "failed"}]_vars

\* the module lists of the installation commands built for instance i, as
\* the log records them: `text` is the log message of the command
ModuleLists(i, text) ==
    {inst[i].provisioning_log[k].detail :
        k \in {l \in 1 .. Len(inst[i].provisioning_log) :
                  inst[i].provisioning_log[l].text = text}}

InitLists(i) == ModuleLists(i, "Initializing Odoo database with modules: ")

InstallLists(i) == ModuleLists(i, "Installing modules: ")

\* C18: the module list of every installation command, the one of the
\* deploy-time initialization and the one of the post-deploy installation
\* of a line, contains base.
C18_BaseInEveryCommand ==
    \A i \in Ids : \A names \in InitLists(i) \cup InstallLists(i) :
        \E k \in 1 .. Len(names) : names[k] = "base"

\* the declared dependencies, as edges module -> module
C19_Depends ==
    {e \in ModuleIds \X ModuleIds : e[2] \in module(e[1]).saas_dependency_ids}

\* the modules a line names: the module of a module line, the modules of
\* the bundle of a bundle line
C19_Members(line) ==
    {m \in ModuleIds :
        \/ line.product_id # None /\ m \in bundle(line.product_id).saas_module_ids
        \/ line.product_id = None /\ m = line.module_id}

\* the technical names of the members and of the targets of their edges
C19_Expansion(line) ==
    {module(x).technical_name :
        x \in {y \in ModuleIds :
                  \/ y \in C19_Members(line)
                  \/ \E m \in C19_Members(line) : <<m, y>> \in C19_Depends}}

\* C19: the names a line resolves to are the technical names of its module,
\* or of the modules of its bundle, and of their direct dependencies, and no
\* other name, on a catalog whose dependencies form a cycle; the list of the
\* installation command of a single line holds these names.
C19_OneLevelExpansion ==
    \A i \in Ids :
        LET lines == inst[i].module_line_ids
        IN  /\ \A k \in 1 .. Len(lines) :
                  _get_all_technical_names(lines[k]) = C19_Expansion(lines[k])
            /\ Len(lines) = 1
               => \A names \in InstallLists(i) :
                     {names[k] : k \in 1 .. Len(names)} = C19_Expansion(lines[1])

\* C19 happens: the installation of a line for sale, which depends on crm,
\* which depends on mail, was called: its list is crm and sale
C19_Witness ==
    \E i \in Ids :
        /\ Len(inst[i].module_line_ids) = 1
        /\ inst[i].module_line_ids[1].module_id = 3
        /\ <<3, 1>> \in C19_Depends /\ <<1, 2>> \in C19_Depends /\ <<2, 3>> \in C19_Depends
        /\ call.op = "install" /\ call.id = i
        /\ InstallLists(i) = {<<"crm", "sale">>}

\* the list is in lexicographic order and has no duplicates
C20_Sorted(names) ==
    \A j, k \in 1 .. Len(names) : j < k => rank(names[j]) < rank(names[k])

C20_Names(names) == {names[k] : k \in 1 .. Len(names)}

\* C20 as stated: the module list of every installation command is in
\* lexicographic order with no duplicates.
C20_LexicographicLists ==
    \A i \in Ids : \A names \in InitLists(i) \cup InstallLists(i) : C20_Sorted(names)

\* C20: the module list of a post-deploy installation is in lexicographic
\* order; the list of the deploy-time initialization is base followed by
\* the other names in lexicographic order; neither has duplicates, and two
\* commands of the same kind for the same names have the same list.
C20_ReproducibleLists ==
    /\ \A i \in Ids : \A names \in InstallLists(i) : C20_Sorted(names)
    /\ \A i \in Ids : \A names \in InitLists(i) :
          /\ names # <<>> /\ names[1] = "base"
          /\ C20_Sorted(Tail(names))
          /\ "base" \notin C20_Names(Tail(names))
    /\ \A i, j \in Ids :
          /\ \A a \in InstallLists(i), b \in InstallLists(j) :
                C20_Names(a) = C20_Names(b) => a = b
          /\ \A a \in InitLists(i), b \in InitLists(j) :
                C20_Names(a) = C20_Names(b) => a = b

\* C20 happens: an instance with a line for account, which depends on base,
\* was deployed and its modules installed: the first list puts base before
\* account, the second account before base
C20_Witness ==
    \E i \in Ids :
        /\ InitLists(i) = {<<"base", "account">>}
        /\ InstallLists(i) = {<<"account", "base">>}

\* the deploy that sent wait_cmd has ended
Waited == call.op = "deploy" /\ call.phase = "done" /\ poll.done

\* the log of the instance has an entry with this text
Logged(i, text) ==
    \E k \in 1 .. Len(inst[i].provisioning_log) : inst[i].provisioning_log[k].text = text

\* C21: when the first status the readiness poll observes is exited or dead,
\* the poll exits with a failure at once and observes nothing more; the
\* deploy then fetches the container's recent output, records it in the
\* log, raises and ends in state failed.
C21_FailsOnFirstExit ==
    /\ [](poll.observed = 1 /\ poll.STATUS \in {"exited", "dead"}
          => /\ poll.done /\ poll.exit_code # 0
             /\ Waited => /\ inst[call.id].state = "failed"
                          /\ call.raised.type = "UserError"
                          /\ call.cmds[Len(call.cmds)] = "docker_logs"
                          /\ Logged(call.id, "Container failed to start."))
    /\ [][poll.done => poll'.observed = poll.observed]_vars

\* C21 happens: the first status was exited and the deploy has failed
C21_Witness ==
    /\ Waited
    /\ poll.observed = 1 /\ poll.STATUS = "exited"
    /\ inst[call.id].state = "failed"

\* C22: the readiness poll makes at most 30 status observations and comes
\* to an end, and so does the deploy; it succeeds at the first observation
\* of running, whatever was observed before, and the deploy ends running;
\* when none of the 30 observations is running the poll fails, and whenever
\* the poll fails the deploy raises and ends in state failed.
C22_PollBoundedAndDecided ==
    /\ [](poll.observed <= Attempts /\ poll.observed = poll.i)
    /\ [](poll.observed >= 1 /\ poll.STATUS = "running"
          => /\ poll.done /\ poll.exit_code = 0 /\ poll.stdout = "READY"
             /\ Waited => /\ inst[call.id].state = "running"
                          /\ call.raised = NoError)
    /\ [](poll.observed = Attempts /\ poll.done /\ poll.STATUS # "running"
          => poll.exit_code # 0)
    /\ [](Waited /\ poll.STATUS # "running"
          => /\ inst[call.id].state = "failed"
             /\ call.raised.type = "UserError")
    /\ [][poll.done => poll' = poll]_vars
    /\ <>Waited

\* C22 happens: thirty observations, none of them running, and the deploy
\* has failed
C22_Witness ==
    /\ Waited
    /\ poll.observed = Attempts /\ poll.STATUS = "restarting"
    /\ poll.stdout = "TIMEOUT"
    /\ inst[call.id].state = "failed"

\* the remote calls of a deploy that come before the role and the database
\* are ensured
C23_Earlier == {"connect", "mkdir", "chown_chmod", "write_dc", "write_conf"}

\* C23: a deploy that reaches the database step with no failure of the
\* database server ensures the role and the database, whether or not they
\* exist already; after that there is one role of that name, with the
\* password of the instance, and one database of that name; an existing
\* database is left as it is, and so is every other role.
C23_EnsureIsIdempotent ==
    [][\A i \in Ids :
          (/\ call.op = "deploy" /\ call.phase = "provisioning" /\ call.id = i
           /\ call'.phase = "done")
          => LET rec == inst[i]
                 before == pg[rec.db_server_id]
                 after == pg'[rec.db_server_id]
                 ready == \E k \in 1 .. Len(inst'[i].provisioning_log) :
                             inst'[i].provisioning_log[k].text
                                 = "PostgreSQL role and database ready."
             IN  /\ call'.fault \notin C23_Earlier \cup {"db_connect", "ensure_role", "createdb"}
                    => ready
                 /\ ready
                    => /\ {r \in after.roles : r.name = rec.db_user}
                          = {[name |-> rec.db_user, password |-> rec.db_password]}
                       /\ Cardinality({d \in after.dbs : d.name = rec.subdomain}) = 1
                 /\ before.dbs \subseteq after.dbs
                 /\ (\E d \in before.dbs : d.name = rec.subdomain) => after.dbs = before.dbs
                 /\ {r \in after.roles : r.name # rec.db_user}
                       = {r \in before.roles : r.name # rec.db_user}
                 /\ \A r1, r2 \in after.roles : r1.name = r2.name => r1 = r2
                 /\ \A d1, d2 \in after.dbs : d1.name = d2.name => d1 = d2]_vars

\* C23 happens: the role and the database of the instance existed, its
\* password was rotated, and a second deploy has ensured them: the role has
\* the new password
C23_Witness ==
    /\ call.op = "deploy" /\ call.phase = "done"
    /\ call.prior.provisioned
    /\ Logged(call.id, "PostgreSQL role and database ready.")
    /\ inst[call.id].db_password = "pwB"
    /\ [name |-> inst[call.id].db_user, password |-> "pwB"] \in pg[1].roles
    /\ [name |-> inst[call.id].db_user, password |-> "pwA"] \notin pg[1].roles

\* C24: when an operation has returned or raised, none of the SSH clients
\* it opened is still open and none of the temporary key files written for
\* its sessions is left on disk.
C24_SessionsReleased ==
    call.phase = "done" => /\ call.ssh.clients = {}
                           /\ call.ssh.key_tmpfiles = 0

\* the sessions an operation entered on the server reached by `name`
C25_Sessions(name) ==
    {k \in 1 .. Len(call.ssh.opened) : call.ssh.opened[k] = name}

C26_Credentials(rec) == <<rec.admin_password, rec.db_user, rec.db_password>>

\* C26: an instance that exists has a master password, a database user and
\* a database password, none of them blank, and no operation on it (deploy,
\* stop, restart, redeploy, suspend, delete, cancel, reset, install
\* modules) changes any of the three.
C26_CredentialsSetOnce ==
    /\ [](\A i \in Ids : inst[i].exists
            => /\ inst[i].admin_password # ""
               /\ inst[i].db_user # <<>>
               /\ inst[i].db_password # "")
    /\ [][\A i \in Ids : inst[i].exists
            => C26_Credentials(inst'[i]) = C26_Credentials(inst[i])]_vars

\* C26 happens: an instance created with the passwords pwA and pwB was
\* deployed again from failed, with other random draws, and has kept them
C26_Witness ==
    /\ call.op = "deploy" /\ call.phase = "done"
    /\ call.prior.state = "failed"
    /\ call.prior.provisioned
    /\ C26_Credentials(inst[call.id])
          = <<"pwB", <<"s", "a", "a", "s", "_", "a", "_", "b">>, "pwA">>

\* C27: the step of a deploy that has passed validation and has its ports
\* empties the log and sets the state to provisioning; every other step of
\* every operation leaves the entries the log has, in their order, and at
\* most adds entries after them.
C27_LogAppendOnly ==
    [][\A i \in Ids : inst[i].exists
          => LET old == inst[i].provisioning_log
                 new == inst'[i].provisioning_log
             IN  IF /\ Idle /\ call'.op = "deploy" /\ call'.id = i
                    /\ ~C3_Invalid(inst[i])
                    /\ has_ports(inst'[i])
                     THEN new = <<>> /\ inst'[i].state = "provisioning"
                     ELSE /\ Len(new) >= Len(old)
                          /\ SubSeq(new, 1, Len(old)) = old]_vars

\* C27 happens: a deploy has added its entries after the ones it had
\* written, and the log was empty when it began writing
C27_Witness ==
    /\ call.op = "deploy" /\ call.phase = "done"
    /\ Len(inst[call.id].provisioning_log) > 2
    /\ inst[call.id].provisioning_log[1].text = "Creating directory structure"
    /\ call.prior.state = "failed"

\* C28: the database host a deploy writes into odoo.conf is the address of
\* the connect-mode of the database server: the public IP when the mode is
\* public_ip, the private IP when it is private_ip.
C28_HostFollowsConnectMode ==
    \A i \in Ids :
        (/\ DeployDone /\ call.id = i
         /\ \E k \in 1 .. Len(call.cmds) : call.cmds[k] = "write_conf"
         /\ call.fault # "write_conf")
        => call.db_host = db_server(inst[i].db_server_id).ssh_connect_using

\* the operation that has ended sent the remote command cmd
Sent(cmd) == \E k \in 1 .. Len(call.cmds) : call.cmds[k] = cmd

\* C29: execute takes the timeout it is given: a deploy that has got to the
\* initialization of the database, and an install-modules call that has
\* connected for a line, send their command, with its timeout of 600
\* seconds, and do not fail with a TypeError.
C29_TimeoutAccepted ==
    \A i \in Ids :
        /\ (/\ DeployDone /\ call.id = i /\ InitLists(i) # {})
           => Sent("odoo_init")
        /\ (/\ call.op = "install" /\ call.phase = "done" /\ call.id = i
            /\ call.ssh.opened # <<>>)
           => (Sent("odoo_install") /\ call.raised.type # "TypeError")

\* C30: no two workers are at the same time between the first and the last
\* step of a lifecycle action on the same instance.
C30_OneTransitionPerInstance ==
    \A v, w \in Workers :
        (v # w /\ workers[v] # NoRequest /\ workers[w] # NoRequest)
        => workers[v].id # workers[w].id

\* the remote steps of a deploy, in the order of _do_deploy
C31_Order ==
    <<"mkdir", "chown_chmod", "write_dc", "write_conf", "ensure_role", "createdb",
      "odoo_init", "compose_up", "wait_ready">>

\* C31: the remote steps a finished deploy has made are the first ones of
\* the fixed order (followed, after a failed readiness poll only, by the
\* fetch of the container output); the container was started only if the
\* initialization returned 0, and the initialization was run only with the
\* role and the database of the instance on the server.
C31_StepsInFixedOrder ==
    (call.op = "deploy" /\ call.phase = "done")
    => /\ \/ \E n \in 0 .. Len(C31_Order) : call.cmds = SubSeq(C31_Order, 1, n)
          \/ call.cmds = C31_Order \o <<"docker_logs">>
       /\ Sent("compose_up") => call.fault # "odoo_init"
       /\ Sent("odoo_init") => provisioned(inst[call.id], pg)

\* a deploy that has made every step up to the initialization
C31_Witness ==
    /\ call.op = "deploy" /\ call.phase = "done" /\ call.fault = "none"
    /\ call.cmds = SubSeq(C31_Order, 1, 6)
    /\ provisioned(inst[call.id], pg)

\* C32: a deploy stops at the first step that fails: the remote call that
\* failed is the last one made (but for the fetch of the container output
\* after a failed readiness poll), a connection that failed is followed by
\* no remote call, and a deploy in which a step failed raises, leaves the
\* state failed if a remote step failed, and never sets the state running.
C32_AbortsAtFirstFailure ==
    (call.op = "deploy" /\ call.phase = "done")
    => /\ (call.raised # NoError /\ inst[call.id].state = "running")
            => call.prior.state = "running" /\ call.cmds = <<>>
       /\ call.fault # "none" => inst[call.id].state = "failed"
       /\ Sent(call.fault) =>
            \/ call.cmds[Len(call.cmds)] = call.fault
            \/ /\ call.fault = "wait_ready"
               /\ call.cmds[Len(call.cmds)] = "docker_logs"
               /\ call.cmds[Len(call.cmds) - 1] = "wait_ready"
       /\ call.fault = "connect" => call.cmds = <<>>
       /\ call.fault = "db_connect" => ~Sent("ensure_role") /\ ~Sent("createdb")
       /\ call.fault # "none" => call.raised # NoError

\* a deploy whose command for the role returned a non-zero exit code
C32_Witness ==
    /\ call.op = "deploy" /\ call.phase = "done" /\ call.fault = "ensure_role"
    /\ Sent("ensure_role")
    /\ inst[call.id].state = "failed"

\* C34: a finished deploy, called in another state than provisioning, has
\* not left the state provisioning behind, whether it returned or raised.
C34_ProvisioningIsLeft ==
    (call.op = "deploy" /\ call.phase = "done" /\ call.prior.state # "provisioning")
    => inst[call.id].state # "provisioning"

\* the lines of the record, those of `pending` now installed
C33_Installed(rec, pending) ==
    [k \in 1 .. Len(rec.module_line_ids) |->
        IF k \in pending THEN [rec.module_line_ids[k] EXCEPT !.state = "installed"]
                         ELSE rec.module_line_ids[k]]

\* the modules and the bundles' modules of the lines of `pending`
C33_Products(rec, pending) ==
    UNION {IF rec.module_line_ids[k].product_id # None
               THEN bundle(rec.module_line_ids[k].product_id).saas_module_ids
               ELSE IF rec.module_line_ids[k].module_id # None
                   THEN {rec.module_line_ids[k].module_id}
                   ELSE {} : k \in pending}

\* the step is a deploy of instance i, from its `try` or from its call
C33_Deploys(i) ==
    /\ call'.op = "deploy" /\ call'.id = i /\ call' # call
    /\ call.op \in {"none", "deploy"}

\* C33: a deploy whose initialization command was sent and returned 0 turns
\* exactly the lines that were pending into installed and adds their
\* modules to the installed set; any other deploy leaves every line and
\* the installed set as they were.
C33_LinesFollowInitialization ==
    [][\A i \in Deployed :
          C33_Deploys(i) =>
            IF (\E k \in 1 .. Len(call'.cmds) : call'.cmds[k] = "odoo_init")
                   /\ call'.fault # "odoo_init"
                THEN /\ inst'[i].module_line_ids
                            = C33_Installed(inst[i], pending_lines(inst[i]))
                     /\ inst'[i].installed_module_ids
                            = inst[i].installed_module_ids
                                \cup C33_Products(inst[i], pending_lines(inst[i]))
                ELSE /\ inst'[i].module_line_ids = inst[i].module_line_ids
                     /\ inst'[i].installed_module_ids = inst[i].installed_module_ids]_vars

\* a deploy of an instance with a pending line has stopped at the
\* initialization, the role and the database ensured
C33_Witness ==
    /\ call.op = "deploy" /\ call.phase = "done" /\ call.fault = "none"
    /\ Sent("createdb") /\ ~Sent("odoo_init")
    /\ call.raised # NoError
    /\ pending_lines(inst[call.id]) # {}

\* C36: two instances never have the same role name or the same database
\* name.
C36_RolesAndDatabasesApart ==
    \A i, j \in Ids :
        (i # j /\ inst[i].exists /\ inst[j].exists)
        => /\ inst[i].db_user # inst[j].db_user
           /\ inst[i].subdomain # inst[j].subdomain

\* C37: the operation that has set the state of an instance to cancelled
\* has made the remote calls of the teardown: compose down, the removal of
\* the directory, the drop of the database and of the role.
C37_CancelledAfterTeardown ==
    (call.phase = "done" /\ call.id # None /\ call.raised = NoError
        /\ call.prior.state # "cancelled" /\ inst[call.id].state = "cancelled")
    => /\ Sent("compose_down") /\ Sent("rm_rf")
       /\ Sent("dropdb") /\ Sent("dropuser")

\* C38: the state running agrees with the last container command that
\* succeeded: an operation whose last successful container command was a
\* stop (a redeploy whose compose stop returned 0 and whose compose up did
\* not) does not leave the instance recorded as running.
C38_RunningMeansStarted ==
    (call.phase = "done" /\ call.op = "redeploy"
        /\ call.cmds = <<"compose_stop", "compose_up">> /\ call.fault = "compose_up")
    => inst[call.id].state # "running"

\* the line has neither a module nor a bundle, or a bundle without modules
C39_Empty(line) ==
    IF line.product_id # None THEN bundle(line.product_id).saas_module_ids = {}
    ELSE line.module_id = None

C40_InstallationIsMonotonic ==
    [][\A i \in Ids :
          inst[i].exists =>
            /\ inst'[i].exists
            /\ Len(inst'[i].module_line_ids) = Len(inst[i].module_line_ids)
            /\ \A k \in 1 .. Len(inst[i].module_line_ids) :
                  /\ inst'[i].module_line_ids[k].product_id
                        = inst[i].module_line_ids[k].product_id
                  /\ inst'[i].module_line_ids[k].module_id
                        = inst[i].module_line_ids[k].module_id
                  /\ inst[i].module_line_ids[k].state # "pending"
                        => inst'[i].module_line_ids[k].state
                              = inst[i].module_line_ids[k].state
            /\ inst[i].installed_module_ids \subseteq inst'[i].installed_module_ids]_vars

\* an instance with a line that has left pending has been cancelled and
\* then reset to draft
C40_Witness ==
    /\ call.op = "draft" /\ call.phase = "done" /\ call.raised = NoError
    /\ call.prior.state = "cancelled"
    /\ \E k \in 1 .. Len(inst[call.id].module_line_ids) :
          inst[call.id].module_line_ids[k].state = "failed"

====
